---- MODULE Spec2Model ----
(***************************************************************************)
(* Model of the infracollect job engine: Runner.Run / Runner.WriteResults, *)
(* Pipeline.Run, the ArchiveSink adapter and the TarArchiver.              *)
(*                                                                         *)
(* Every call the engine makes on a collaborator (collector, step, sink,   *)
(* inner sink, archiver) is appended to the log `calls`, in call order.    *)
(* Go maps (Pipeline.collectors, the results map) are iterated in an       *)
(* arbitrary order: the loops over them pick any remaining key.            *)
(***************************************************************************)
EXTENDS Naturals, Integers, Sequences, FiniteSets, TLC

VARIABLES
    pc,         \* position of the driver: Runner.Run's program point, or "tar" / "sink"
    job,        \* the job the Runner was built for
    cancelled,  \* TRUE once the run context (ctx) has been cancelled
    toStart,    \* collectors the start loop of Runner.Run has not visited yet
    deferred,   \* TRUE once Runner.Run has registered its deferred cleanup
    stepIdx,    \* index into Pipeline.steps of the step Pipeline.Run is at
    inflight,   \* step ids whose Resolve has been called and has not returned
    results,    \* Pipeline.Run's results map: step id -> Result
    toWrite,    \* keys of results the loop of WriteResults has not visited yet
    toClose,    \* collectors the cleanup loop has not visited yet
    runErr,     \* the value Runner.Run returns (Nil for a nil error)
    logged,     \* errors the deferred cleanup logged with logger.Error
    archiver,   \* the TarArchiver (of the ArchiveSink, or driven directly)
    calls,      \* log of the calls made on collaborators
    pipeline,   \* the engine.Pipeline: its collectors map and its steps list
    ret,        \* what the function driven last returned (Nil for a nil error)
    input,      \* the value template expansion is applied to, updated in place
    variables,  \* the variable map of template expansion
    env,        \* the process environment: name -> value, or Unset
    allowedEnv, \* the names given with allowed-env, in order
    registry,   \* the engine.Registry: its collectors, steps and helper.deps maps
    mu,         \* Registry.mu: the goroutine holding the write lock, and the readers
    threads,    \* the goroutines calling the Registry: position and locals of each
    tfCollector, \* the terraform Collector: its provider field
    clock,      \* the wall clock: what time.Now() returns, in seconds past Epoch
    date,       \* Pipeline.date, set by NewPipeline
    proc,       \* the exec step under Resolve: its context and its child process
    cmd,        \* the collect command: its arguments, flags, context and stdin
    resp        \* the response readJobFile got from client.Do, its body not read yet

vars == <<pc, job, cancelled, toStart, deferred, stepIdx, inflight, results,
          toWrite, toClose, runErr, logged, archiver, calls, pipeline, ret,
          input, variables, env, allowedEnv, registry, mu, threads, tfCollector,
          clock, date, proc, cmd, resp>>

\* the state of the Registry and of the goroutines using it
registryVars == <<registry, mu, threads>>

\* the state of template expansion
templateVars == <<input, variables, env, allowedEnv>>

\* the clock, the pipeline's date, the exec step's process and the command
sysVars == <<clock, date, proc, cmd, resp>>

\* the state of the parts built before Runner.Run, untouched by the run itself
extVars == <<pipeline, ret, templateVars, registryVars, tfCollector, sysVars>>

\* the Runner's own variables, untouched when a sink or an archiver is driven directly
runnerVars == <<job, toStart, deferred, stepIdx, inflight, results, toWrite,
                toClose, runErr, logged>>

\* everything but the Registry and the position of its driver
nonRegistryVars == <<cancelled, archiver, calls, pipeline, ret, templateVars,
                     tfCollector, sysVars, runnerVars>>

(***************************************************************************)
(* Bounds                                                                  *)
(***************************************************************************)
MaxSteps == 2
MaxCollectors == 2
MaxCalls == 3
MaxClock == 2

MaxLen == 2

(***************************************************************************)
(* Values                                                                  *)
(***************************************************************************)
\* a nil error / nil reader
Nil == "<nil>"

\* ctx.Err() of a cancelled context
ContextCanceled == "context canceled"

StepID(i) == "s" \o ToString(i)
CollectorID(i) == "c" \o ToString(i)

\* Pipeline.steps of the job: the step ids in declaration order
Steps(j) == [i \in 1..j.nSteps |-> StepID(i)]

\* Pipeline.Collectors(): the keys of the collectors map
Collectors(j) == {CollectorID(i) : i \in 1..j.nCols}

\* Collector.Name()
CollectorName(id) == "collector-" \o id

\* the empty Go map
EmptyMap == [k \in {} |-> Nil]

\* a value encoding/json cannot encode (a NaN float)
NaN == "NaN"

\* Data of the Result the i-th step can resolve to: {"value": "<i>"}, or a value
\* that cannot be encoded
DataValues(i) == {[value |-> ToString(i)], [value |-> NaN]}

\* bytes of the files handed to a sink or an archiver that is driven directly
Bytes == {"x", "y"}
Contents == {[i \in 1..n |-> b] : n \in 0..MaxLen, b \in Bytes}
Names == {"f1.json", "f2.json"}

\* an io.Reader: the bytes it yields, and the error its Read ends with (nil for EOF)
Reader(bytes) == [bytes |-> bytes, err |-> Nil]

\* a reader whose Read fails
BrokenReader == [bytes |-> <<>>, err |-> "read error"]

\* the context's error, nil when the context is not cancelled
CtxErr(ctx) == IF ctx = "run" /\ cancelled THEN ContextCanceled ELSE Nil

\* one entry of the call log
Call(target, op, id, ctx, data, err) ==
    [target |-> target, op |-> op, id |-> id, ctx |-> ctx,
     cancelled |-> (CtxErr(ctx) # Nil), data |-> data, err |-> err]

(***************************************************************************)
(* JSONEncoder                                                             *)
(***************************************************************************)
FileExtension == "json"

\* the indents a job's output.encoding.json.indent can hold, as characters
NoIndent == <<>>
TwoSpaces == <<" ", " ">>

\* json.Encoder.Encode of {"value": v}: compact when no indent is set, and after
\* SetIndent("", indent) one member per line, indented, a space after the colon;
\* Encode appends a newline
EncodeIndented(indent, v) ==
    IF indent = NoIndent
    THEN <<"{", "\"", "v", "a", "l", "u", "e", "\"", ":", "\"", v, "\"", "}", "\n">>
    ELSE <<"{", "\n">> \o indent
         \o <<"\"", "v", "a", "l", "u", "e", "\"", ":", " ", "\"", v, "\"", "\n", "}", "\n">>

\* JSONEncoder.EncodeResult(ctx, result) of the encoder built with `indent`
EncodeResult(indent, result) ==
    IF result.data.value = NaN
    THEN [reader |-> Nil,
          err |-> "failed to encode result as JSON: json: unsupported value: NaN"]
    ELSE [reader |-> Reader(EncodeIndented(indent, result.data.value)), err |-> Nil]

(***************************************************************************)
(* TarArchiver                                                             *)
(*                                                                         *)
(* The tar stream is a sequence of tokens: a header token carrying name,   *)
(* mode and size, followed by `size` byte tokens, and an end-of-archive    *)
(* token written by tar.Writer.Close.  A compressor frames the stream with *)
(* a magic token naming the codec and a trailer carrying the length; the   *)
(* compressed bytes reach the buffer when the compressor is closed.        *)
(***************************************************************************)
CompressionGzip == "gzip"
CompressionZstd == "zstd"
CompressionNone == "none"

\* header.Mode: 0644
FileMode == 420

HeaderToken(name, size) == [t |-> "hdr", name |-> name, mode |-> FileMode, size |-> size]
ByteTokens(content) == [i \in 1..Len(content) |-> [t |-> "byte", b |-> content[i]]]
EndToken == [t |-> "end"]

\* what the compressor has written to buf once it is closed
Compress(ct, stream) ==
    IF ct = CompressionNone
    THEN stream
    ELSE <<[t |-> "magic", codec |-> ct]>> \o stream
         \o <<[t |-> "trailer", size |-> Len(stream)]>>

NewTarArchiver(compression) ==
    LET ct == IF compression = "" THEN CompressionGzip ELSE compression
    IN  IF ct \in {CompressionGzip, CompressionZstd, CompressionNone}
        THEN [archiver |-> [compression |-> ct, tar |-> <<>>, buf |-> <<>>,
                            closed |-> FALSE],
              err |-> Nil]
        ELSE [archiver |-> Nil,
              err |-> "unsupported compression type: " \o compression]

\* AddFile with the header written before the data is read: Size is left at zero
AddFileZeroSize(a, ctxErr, filename, data) ==
    IF a.closed
    THEN [archiver |-> a, err |-> "archiver is closed"]
    ELSE IF ctxErr # Nil
    THEN [archiver |-> a, err |-> "context cancelled: " \o ctxErr]
    ELSE IF data.err # Nil
    THEN [archiver |-> a, err |-> "failed to read file data: " \o data.err]
    ELSE LET content == data.bytes
         IN  [archiver |-> [a EXCEPT !.tar = @ \o <<HeaderToken(filename, 0)>>
                                                \o ByteTokens(content)],
              err |-> Nil]

\* AddFile without the check of the closed flag
AddFileOnClosed(a, ctxErr, filename, data) ==
    IF ctxErr # Nil
    THEN [archiver |-> a, err |-> "context cancelled: " \o ctxErr]
    ELSE IF data.err # Nil
    THEN [archiver |-> a, err |-> "failed to read file data: " \o data.err]
    ELSE LET content == data.bytes
         IN  [archiver |-> [a EXCEPT !.tar = @ \o <<HeaderToken(filename, Len(content))>>
                                                \o ByteTokens(content)],
              err |-> Nil]

\* TarArchiver.AddFile(ctx, filename, data); ctxErr is ctx.Err()
AddFile(a, ctxErr, filename, data) ==
    IF a.closed
    THEN [archiver |-> a, err |-> "archiver is closed"]
    ELSE IF ctxErr # Nil
    THEN [archiver |-> a, err |-> "context cancelled: " \o ctxErr]
    ELSE IF data.err # Nil
    THEN [archiver |-> a, err |-> "failed to read file data: " \o data.err]
    ELSE LET content == data.bytes
         IN  [archiver |-> [a EXCEPT !.tar = @ \o <<HeaderToken(filename, Len(content))>>
                                                \o ByteTokens(content)],
              err |-> Nil]

\* TarArchiver.Close()
ArchiverClose(a) ==
    IF a.closed
    THEN [archiver |-> a, reader |-> Nil, err |-> "archiver already closed"]
    ELSE LET buf == Compress(a.compression, a.tar \o <<EndToken>>)
         IN  [archiver |-> [a EXCEPT !.closed = TRUE, !.buf = buf],
              reader |-> buf, err |-> Nil]

\* TarArchiver.Extension()
Extension(a) ==
    CASE a.compression = CompressionGzip -> ".tar.gz"
      [] a.compression = CompressionZstd -> ".tar.zst"
      [] a.compression = CompressionNone -> ".tar"
      [] OTHER -> ".tar"

(***************************************************************************)
(* Reading an archive back (readTarEntries of the archiver's tests)        *)
(***************************************************************************)
\* gzip.NewReader / zstd.NewReader over the bytes, or the bytes themselves.
\* gzip.NewReader reads the header and fails at once; zstd.NewReader reads
\* nothing, and a bad frame fails the first Read.  `fail` is the error the
\* stream ends with when it is read past its last byte (nil for io.EOF).
Decompress(compression, bytes) ==
    LET framed == /\ Len(bytes) >= 1
                  /\ bytes[1] = [t |-> "magic", codec |-> compression]
        whole  == /\ Len(bytes) >= 2
                  /\ bytes[Len(bytes)] = [t |-> "trailer", size |-> Len(bytes) - 2]
        body   == IF whole THEN SubSeq(bytes, 2, Len(bytes) - 1)
                  ELSE SubSeq(bytes, 2, Len(bytes))
    IN  IF compression = CompressionGzip
        THEN IF bytes = <<>> THEN [stream |-> <<>>, fail |-> Nil, err |-> "EOF"]
             ELSE IF ~framed
             THEN [stream |-> <<>>, fail |-> Nil, err |-> "gzip: invalid header"]
             ELSE [stream |-> body, fail |-> IF whole THEN Nil ELSE "unexpected EOF",
                   err |-> Nil]
        ELSE IF compression = CompressionZstd
        THEN IF bytes = <<>> THEN [stream |-> <<>>, fail |-> Nil, err |-> Nil]
             ELSE IF ~framed
             THEN [stream |-> <<>>, fail |-> "invalid input: magic number mismatch",
                   err |-> Nil]
             ELSE [stream |-> body, fail |-> IF whole THEN Nil ELSE "unexpected EOF",
                   err |-> Nil]
        ELSE IF compression = CompressionNone
        THEN [stream |-> bytes, fail |-> Nil, err |-> Nil]
        ELSE [stream |-> <<>>, fail |-> Nil,
              err |-> "unknown compression: " \o compression]

\* found[h.Name] = string(content): a later entry of the same name replaces the earlier
Found(found, name, content) ==
    [n \in DOMAIN found \cup {name} |-> IF n = name THEN content ELSE found[n]]

\* the loop over tar.Reader.Next and io.ReadAll, filling the map name -> content;
\* the map is nil when the loop fails
RECURSIVE ReadTar(_, _, _)
ReadTar(stream, fail, found) ==
    IF stream = <<>>
    THEN IF fail # Nil THEN [entries |-> EmptyMap, err |-> fail]
         ELSE [entries |-> found, err |-> Nil]
    ELSE IF Head(stream).t = "end"
    THEN [entries |-> found, err |-> Nil]
    ELSE IF Head(stream).t # "hdr"
    THEN [entries |-> EmptyMap, err |-> "archive/tar: invalid tar header"]
    ELSE LET h == Head(stream)
         IN  IF \E i \in 2..(1 + h.size) : i <= Len(stream) /\ stream[i].t # "byte"
             THEN [entries |-> EmptyMap, err |-> "unexpected EOF"]
             ELSE IF Len(stream) < 1 + h.size
             THEN [entries |-> EmptyMap,
                   err |-> IF fail # Nil THEN fail ELSE "unexpected EOF"]
             ELSE ReadTar(SubSeq(stream, h.size + 2, Len(stream)), fail,
                          Found(found, h.name, [i \in 1..h.size |-> stream[i + 1].b]))

\* readTarEntries(t, data, compression)
readTarEntries(bytes, compression) ==
    LET d == Decompress(compression, bytes)
    IN  IF d.err # Nil THEN [entries |-> EmptyMap, err |-> d.err]
        ELSE ReadTar(d.stream, d.fail, EmptyMap)

(***************************************************************************)
(* Sinks                                                                   *)
(***************************************************************************)
\* outcomes of the inner sink's Write: nil, or an I/O error
Faults == {Nil, "io error"}

\* StreamSink / FilesystemSink / S3Sink Close: returns nil
InnerClose == Nil

\* ArchiveSink.Write(ctx, path, data)
ArchiveSinkWrite(a, ctx, path, data) ==
    LET r == AddFile(a, CtxErr(ctx), path, data)
        err == IF r.err # Nil
               THEN "failed to add file to archive: " \o r.err
               ELSE Nil
    IN  [archiver |-> r.archiver, err |-> err,
         log |-> <<Call("sink", "Write", path, ctx, data.bytes, err)>>]

\* wrapWithArchiveSink: the name the ArchiveSink is built with
ArchiveName(j) == IF j.archiveName = "" THEN j.name ELSE j.archiveName

\* wrapWithArchiveSink(inner, job): the archiver of the ArchiveSink, or the error
wrapWithArchiveSink(j) ==
    LET r == NewTarArchiver(IF j.compression = "" THEN CompressionGzip ELSE j.compression)
    IN  IF r.err # Nil
        THEN [archiver |-> Nil, err |-> "failed to create tar archiver: " \o r.err]
        ELSE [archiver |-> r.archiver, err |-> Nil]

\* Runner.sink.Write: the ArchiveSink's when output.archive is set, else the sink's own
SinkWrite(j, a, ctx, path, data, fault) ==
    IF j.archive
    THEN ArchiveSinkWrite(a, ctx, path, data)
    ELSE [archiver |-> a, err |-> fault,
          log |-> <<Call("sink", "Write", path, ctx, data.bytes, fault)>>]

\* the call log with the error the running sink.Close returns filled in
SinkCloseReturned(log, err) ==
    LET last == CHOOSE i \in 1..Len(log) :
                    /\ log[i].target = "sink" /\ log[i].op = "Close"
                    /\ \A k \in (i + 1)..Len(log) :
                          ~(log[k].target = "sink" /\ log[k].op = "Close")
    IN  [log EXCEPT ![last].err = err]

(***************************************************************************)
(* Template expansion: Expand, ExpandMap                                   *)
(*                                                                         *)
(* A string is the sequence of its characters: "${A}/" is                  *)
(* <<"$", "{", "A", "}", "/">>.                                            *)
(***************************************************************************)
\* os.LookupEnv: the value of a variable that is not set; a variable that is
\* set is [set |-> TRUE, val |-> its value]
Unset == [set |-> FALSE, val |-> <<>>]

\* no template expansion is going on
NoTemplates ==
    /\ input = Nil
    /\ variables = EmptyMap
    /\ env = EmptyMap
    /\ allowedEnv = <<>>

\* the characters '0'..'9', 'a'..'z' and 'A'..'Z'
Digits == {"0", "1", "2", "3", "4", "5", "6", "7", "8", "9"}
LowerCase == {"a", "b", "c", "d", "e", "f", "g", "h", "i", "j", "k", "l", "m",
              "n", "o", "p", "q", "r", "s", "t", "u", "v", "w", "x", "y", "z"}
UpperCase == {"A", "B", "C", "D", "E", "F", "G", "H", "I", "J", "K", "L", "M",
              "N", "O", "P", "Q", "R", "S", "T", "U", "V", "W", "X", "Y", "Z"}

\* os: isShellSpecialVar
isShellSpecialVar(c) == c \in {"*", "#", "$", "@", "!", "?", "-"} \cup Digits

\* os: isAlphaNum
isAlphaNum(c) == c = "_" \/ c \in Digits \/ c \in LowerCase \/ c \in UpperCase

\* the Go string of a sequence of tokens
RECURSIVE Str(_)
Str(s) ==
    IF s = <<>> THEN ""
    ELSE IF Len(s) = 1 THEN s[1]
    ELSE Str(SubSeq(s, 1, Len(s) \div 2)) \o Str(SubSeq(s, Len(s) \div 2 + 1, Len(s)))

\* os.getShellName(s), s not empty: the name that starts s and the width consumed
getShellName(s) ==
    IF s[1] = "{"
    THEN IF Len(s) > 2 /\ isShellSpecialVar(s[2]) /\ s[3] = "}"
         THEN [name |-> <<s[2]>>, w |-> 3]
         ELSE LET closing == {i \in 2..Len(s) : s[i] = "}"}
              IN  IF closing = {} THEN [name |-> <<>>, w |-> 1]
                  ELSE LET i == CHOOSE k \in closing : \A l \in closing : k <= l
                       IN  IF i = 2 THEN [name |-> <<>>, w |-> 2]
                           ELSE [name |-> SubSeq(s, 2, i - 1), w |-> i]
    ELSE IF isShellSpecialVar(s[1]) THEN [name |-> <<s[1]>>, w |-> 1]
    ELSE LET stops == {i \in 1..Len(s) : ~isAlphaNum(s[i])}
             n == IF stops = {} THEN Len(s)
                  ELSE (CHOOSE k \in stops : \A l \in stops : k <= l) - 1
         IN  [name |-> SubSeq(s, 1, n), w |-> n]

\* the error of Expand's mapping function for a key that is not in the map
NotAllowed(key) == "environment variable \"" \o key \o "\" is not in the allowed list"

\* the mapping function looking the key up in the environment when the map lacks it
mappingFromEnv(vs, key) ==
    IF key \in DOMAIN vs THEN [val |-> vs[key], errs |-> <<>>]
    ELSE IF key \in DOMAIN env /\ env[key] # Unset
    THEN [val |-> env[key].val, errs |-> <<>>]
    ELSE [val |-> <<>>, errs |-> <<NotAllowed(key)>>]

\* the mapping function Expand hands to os.Expand
mapping(vs, key) ==
    IF key \in DOMAIN vs THEN [val |-> vs[key], errs |-> <<>>]
    ELSE [val |-> <<>>, errs |-> <<NotAllowed(key)>>]

\* The element of a singleton set.  The({e(r) : r \in {x}}) is e(x), with x
\* computed once whatever the number of places where e uses it.
The(S) == CHOOSE x \in S : TRUE

\* os.Expand(s, mapping) from position j on; buf is the output so far, errs
\* the errors the mapping function has joined so far
RECURSIVE osExpand(_, _, _, _, _)
osExpand(s, vs, j, buf, errs) ==
    IF j > Len(s) THEN [result |-> buf, errs |-> errs]
    ELSE IF s[j] = "$" /\ j < Len(s)
    THEN The({ IF g.name = <<>> /\ g.w > 0
               THEN osExpand(s, vs, j + g.w + 1, buf, errs)
               ELSE IF g.name = <<>>
               THEN osExpand(s, vs, j + g.w + 1, Append(buf, s[j]), errs)
               ELSE The({ osExpand(s, vs, j + g.w + 1, buf \o r.val, errs \o r.errs)
                          : r \in {mapping(vs, Str(g.name))} })
               : g \in {getShellName(SubSeq(s, j + 1, Len(s)))} })
    ELSE osExpand(s, vs, j + 1, Append(buf, s[j]), errs)

\* Expand keeping the first error only
ExpandFirstError(value, vs) ==
    The({ IF r.errs # <<>> THEN [value |-> <<>>, errs |-> <<r.errs[1]>>]
          ELSE [value |-> r.result, errs |-> <<>>]
          : r \in {osExpand(value, vs, 1, <<>>, <<>>)} })

\* Expand(value, variables): errs is the joined error, empty for nil
Expand(value, vs) ==
    The({ IF r.errs # <<>> THEN [value |-> <<>>, errs |-> r.errs]
          ELSE [value |-> r.result, errs |-> <<>>]
          : r \in {osExpand(value, vs, 1, <<>>, <<>>)} })

\* ExpandMap: the loop over the map, over the keys left in the iteration order ord
RECURSIVE expandMapLoop(_, _, _, _, _)
expandMapLoop(m, vs, ord, result, errs) ==
    IF ord = <<>> THEN [result |-> result, errs |-> errs]
    ELSE The({ IF e.errs # <<>>
               THEN expandMapLoop(m, vs, Tail(ord), result, errs \o e.errs)
               ELSE expandMapLoop(m, vs, Tail(ord),
                                  [x \in DOMAIN result \cup {Head(ord)} |->
                                     IF x = Head(ord) THEN e.value ELSE result[x]],
                                  errs)
               : e \in {Expand(m[Head(ord)], vs)} })

\* the keys of m in the order the range loop visits them: Go leaves the order
\* open, the model takes it from order, a sequence of all possible keys
RECURSIVE iteration(_, _)
iteration(m, order) ==
    IF order = <<>> THEN <<>>
    ELSE IF Head(order) \in DOMAIN m THEN <<Head(order)>> \o iteration(m, Tail(order))
    ELSE iteration(m, Tail(order))

\* ExpandMap(values, variables)
ExpandMap(values, vs, order) ==
    IF values.nil THEN [val |-> values, errs |-> <<>>]
    ELSE The({ IF r.errs # <<>> THEN [val |-> [nil |-> TRUE], errs |-> r.errs]
               ELSE [val |-> [nil |-> FALSE, m |-> r.result], errs |-> <<>>]
               : r \in {expandMapLoop(values.m, vs, iteration(values.m, order),
                                      EmptyMap, <<>>)} })

(***************************************************************************)
(* Template expansion: ExpandTemplates                                     *)
(*                                                                         *)
(* A struct value is the sequence of its fields in declaration order; a    *)
(* field carries its name, the kind of its type, its template tag (Nil for *)
(* no tag), whether it is exported, and its value.  Pointers, maps and     *)
(* slices are records with a nil flag.                                     *)
(***************************************************************************)
\* expandStructInPlace's test of the template tag: hasTemplate && tag != "-",
\* here passing every field
expandableAnyTag(f) == TRUE

\* expandStructInPlace's test of the template tag: hasTemplate && tag != "-"
expandable(f) == f.tag # Nil /\ f.tag # "-"

\* The loops of the walk: expandStructInPlace's over the fields of a struct and
\* expandSliceInPlace's over the elements of a slice of each kind it handles
Loops == {"struct", "[]string", "[]struct", "[]*struct"}

\* what the items of each loop are walked as: a field of a struct, and an
\* element of a slice by its type (an element that is a struct is walked by the
\* loop over its fields)
itemOf(loop) ==
    IF loop = "struct" THEN "field"
    ELSE IF loop = "[]string" THEN "string"
    ELSE IF loop = "[]struct" THEN "struct"
    ELSE "*struct"

\* the Go type and the value of an item: field.Kind() and field for a field,
\* elem for a slice element
typeOf(what, v) == IF what = "field" THEN v.kind ELSE what
valueOf(what, v) == IF what = "field" THEN v.val ELSE v

\* the items the code passes over: the `continue`s of expandStructInPlace
\* (!field.CanSet(), a string, *string or []string field that is not
\* expandable) and the nil tests (IsNil) of both functions
passedOver(what, v) ==
    \/ what = "field" /\ ~v.exported
    \/ what = "field" /\ v.kind \in {"string", "*string", "[]string"} /\ ~expandable(v)
    \/ /\ typeOf(what, v) \in {"*string", "*struct", "map[string]string",
                               "[]string", "[]struct", "[]*struct"}
       /\ valueOf(what, v).nil

\* what the code reaches inside an item: the string itself, what a pointer
\* points to (Elem), the fields of a struct, the elements of a slice
reached(what, v) ==
    LET t == typeOf(what, v)
        x == valueOf(what, v)
    IN  IF t \in {"string", "struct"} THEN x
        ELSE IF t \in {"*string", "*struct"} THEN x.elem
        ELSE x.elems

\* the item once the code has written y where reached(what, v) was
written(what, v, y) ==
    LET t == typeOf(what, v)
    IN  IF t \in {"string", "struct"} THEN y
        ELSE IF t \in {"*string", "*struct"} THEN [nil |-> FALSE, elem |-> y]
        ELSE [nil |-> FALSE, elems |-> y]

\* the loop that walks inside an item: expandStructInPlace for a struct and a
\* pointer to one, expandSliceInPlace's loop for a slice
walkAs(what, v) ==
    IF typeOf(what, v) \in {"struct", "*struct"} THEN "struct" ELSE typeOf(what, v)

\* v with its i-th item set to x: field.Set / elem.SetString, and the writes a
\* nested walk has made in place
put(loop, v, i, x) ==
    IF loop = "struct" THEN [v EXCEPT ![i].val = x] ELSE [v EXCEPT ![i] = x]

\* The walk of expandStructInPlace and expandSliceInPlace over a value, in one
\* recursive definition.  For what in Loops it is that loop over the items of v
\* from item i on: the first item that fails ends the loop (return err), with
\* the items before it written.  Otherwise it is the body of a loop on the item
\* v: the switch on field.Kind() of expandStructInPlace for "field", the body of
\* expandSliceInPlace's loop for "string" and "*struct".  val is v (the value
\* of the field for "field") as the code leaves it, errs the error returned,
\* empty for nil.
RECURSIVE expandInPlace(_, _, _, _, _)
expandInPlace(what, v, vs, order, i) ==
    LET same == [val |-> valueOf(what, v), errs |-> <<>>]
    IN  IF what \in Loops
        THEN IF i > Len(v) THEN same
             ELSE The({ IF r.errs # <<>>
                        THEN [val |-> put(what, v, i, r.val), errs |-> r.errs]
                        ELSE expandInPlace(what, put(what, v, i, r.val), vs, order, i + 1)
                        : r \in {expandInPlace(itemOf(what), v[i], vs, order, 1)} })
        ELSE IF passedOver(what, v) THEN same
        ELSE IF typeOf(what, v) \in {"string", "*string"}
        THEN The({ IF e.errs # <<>> THEN [val |-> valueOf(what, v), errs |-> e.errs]
                   ELSE [val |-> written(what, v, e.value), errs |-> <<>>]
                   : e \in {Expand(reached(what, v), vs)} })
        ELSE IF typeOf(what, v) = "map[string]string"
        THEN The({ IF r.errs # <<>> THEN [val |-> valueOf(what, v), errs |-> r.errs]
                   ELSE r
                   : r \in {ExpandMap(valueOf(what, v), vs, order)} })
        ELSE IF typeOf(what, v) \in {"struct", "*struct", "[]string", "[]struct", "[]*struct"}
        THEN The({ [val |-> written(what, v, r.val), errs |-> r.errs]
                   : r \in {expandInPlace(walkAs(what, v), reached(what, v), vs, order, 1)} })
        ELSE same

\* expandStructInPlace(v, variables)
expandStructInPlace(v, vs, order) == expandInPlace("struct", v, vs, order, 1)

\* expandSliceInPlace(v, variables) for a slice of kind "[]string", "[]struct"
\* or "[]*struct"; a slice of another kind is left alone
expandSliceInPlace(v, kind, vs, order) ==
    IF v.nil THEN [val |-> v, errs |-> <<>>]
    ELSE IF kind \in {"[]string", "[]struct", "[]*struct"}
    THEN The({ [val |-> [nil |-> FALSE, elems |-> r.val], errs |-> r.errs]
               : r \in {expandInPlace(kind, v.elems, vs, order, 1)} })
    ELSE [val |-> v, errs |-> <<>>]

\* the types of the model whose reflect.Kind is Slice
SliceTypes == {"[]string", "[]struct", "[]*struct", "[]int"}

\* ExpandTemplates(in, variables): in is a pointer; the switch on v.Kind()
\* sends a struct to expandStructInPlace and a slice of any element type to
\* expandSliceInPlace
ExpandTemplates(in, vs, order) ==
    IF in.nil THEN [val |-> in, errs |-> <<>>]
    ELSE IF in.kind = "struct"
    THEN The({ [val |-> [in EXCEPT !.elem = r.val], errs |-> r.errs]
               : r \in {expandStructInPlace(in.elem, vs, order)} })
    ELSE IF in.kind \in SliceTypes
    THEN The({ [val |-> [in EXCEPT !.elem = r.val], errs |-> r.errs]
               : r \in {expandSliceInPlace(in.elem, in.kind, vs, order)} })
    ELSE [val |-> in,
          errs |-> <<"ExpandTemplates expects *struct or *[]struct; got *" \o in.kind>>]

\* the decimal digit of n, for n in 0..9
Digit(n) ==
    IF n = 0 THEN "0" ELSE IF n = 1 THEN "1" ELSE IF n = 2 THEN "2"
    ELSE IF n = 3 THEN "3" ELSE IF n = 4 THEN "4" ELSE IF n = 5 THEN "5"
    ELSE IF n = 6 THEN "6" ELSE IF n = 7 THEN "7" ELSE IF n = 8 THEN "8" ELSE "9"

\* the "05" of a Go time layout: the seconds, on two digits
TwoDigits(n) == Digit(n \div 10) \o Digit(n % 10)

\* t.Format(engine.ISO8601Basic), for the instant t seconds past the Epoch of the
\* clock, 2026-01-24T10:30:00Z, within the minute that follows it
ISO8601Basic(t) == <<"20260124T1030" \o TwoDigits(t) \o "Z">>

\* t.Format(time.RFC3339), for the same instants
RFC3339(t) == <<"2026-01-24T10:30:" \o TwoDigits(t) \o "Z">>

\* time.Now().UTC() in the two formats of the built-in variables
DateISO8601 == ISO8601Basic(clock)
DateRFC3339 == RFC3339(clock)

\* BuildVariables: the loop over allowedEnv, from the i-th name on
RECURSIVE lookupAllowed(_, _, _, _, _)
lookupAllowed(allowed, environ, i, vs, errs) ==
    IF i > Len(allowed) THEN [vars |-> vs, errs |-> errs]
    ELSE LET envName == allowed[i]
         IN  IF envName \notin DOMAIN environ \/ environ[envName] = Unset
             THEN lookupAllowed(allowed, environ, i + 1, vs,
                                Append(errs, "environment variable \"" \o envName
                                             \o "\" is not set"))
             ELSE lookupAllowed(allowed, environ, i + 1,
                                [k \in DOMAIN vs \cup {envName} |->
                                   IF k = envName THEN environ[envName].val ELSE vs[k]],
                                errs)

\* BuildVariables(job, allowedEnv) in the environment environ
BuildVariables(j, allowed, environ) ==
    LET builtin == [k \in {"JOB_NAME", "JOB_DATE_ISO8601", "JOB_DATE_RFC3339"} |->
                      IF k = "JOB_NAME" THEN <<j.name>>
                      ELSE IF k = "JOB_DATE_ISO8601" THEN DateISO8601
                      ELSE DateRFC3339]
        r == lookupAllowed(allowed, environ, 1, builtin, <<>>)
    IN  IF r.errs # <<>> THEN [vars |-> EmptyMap, errs |-> r.errs] ELSE r

(***************************************************************************)
(* engine.Registry                                                         *)
(***************************************************************************)
\* the goroutines that share the Registry
Threads == {1, 2}

\* no goroutine holds the write lock
NoWriter == 0

\* NewRegistry: empty maps, and a mutex nobody holds
NewRegistry == [collectors |-> EmptyMap, steps |-> EmptyMap, deps |-> EmptyMap]
NewMutex == [writer |-> NoWriter, readers |-> {}]

\* what a call on the Registry returns: a created collector or step, a list of
\* kinds, or an *UnsupportedTypeError with its three fields
NoResult ==
    [status |-> "", category |-> "", kind |-> "", available |-> <<>>, dep |-> "",
     err |-> Nil]
UnsupportedTypeError(category, kind, available) ==
    [status |-> "unsupported", category |-> category, kind |-> kind,
     available |-> available, dep |-> "", err |-> Nil]

\* a goroutine that is not in a call; spec and collector are the dynamic types
\* (%T) of the arguments of a Create*
IdleThread ==
    [pc |-> "idle", op |-> "", kind |-> "", spec |-> "", collector |-> "",
     ok |-> FALSE, available |-> <<>>,
     invoked |-> FALSE, accessing |-> "", mode |-> "", result |-> NoResult]

\* the id CreateStep is called with
FactoryStepID == "s1"

\* the dynamic type of a nil Collector interface
NilType == "<nil>"

\* the type parameters of the typed factories registered under each kind: the
\* spec type T (S for a step), and the collector type C of a step factory
\* built by NewStepFactory ("" for one built by NewStepFactoryWithoutCollector)
SpecType(kind) ==
    IF kind = "http" THEN "v1.HTTPCollector"
    ELSE IF kind = "terraform" THEN "v1.TerraformCollector"
    ELSE IF kind = "http_get" THEN "v1.HTTPGetStep"
    ELSE "v1.StaticStep"
CollectorType(kind) == IF kind = "http_get" THEN "*http.Collector" ELSE ""

\* the function NewCollectorFactory(kind, f) returns, called with an input of
\* the given dynamic type; ferr is what f returns when it is reached
NewCollectorFactory(kind, in, ferr) ==
    IF in # SpecType(kind)
    THEN "invalid collector spec for kind \"" \o kind \o "\": " \o in
    ELSE ferr

\* the function NewStepFactory(kind, f) returns
NewStepFactory(kind, id, collector, in, ferr) ==
    IF collector = NilType
    THEN "step kind \"" \o kind \o "\" requires a collector, got nil"
    ELSE IF collector # CollectorType(kind)
    THEN "invalid collector type for step \"" \o kind \o "\" with id " \o id
         \o ": " \o collector
    ELSE IF in # SpecType(kind)
    THEN "invalid step spec for kind \"" \o kind \o "\" with id " \o id
         \o ": " \o in
    ELSE ferr

\* the function NewStepFactoryWithoutCollector(kind, f) returns
NewStepFactoryWithoutCollector(kind, id, in, ferr) ==
    IF in # SpecType(kind)
    THEN "invalid step spec for kind \"" \o kind \o "\" with id " \o id
         \o ": " \o in
    ELSE ferr

\* the error of the factory registered under the kind of goroutine th's call
FactoryError(th, ferr) ==
    IF th.op = "CreateCollector" THEN NewCollectorFactory(th.kind, th.spec, ferr)
    ELSE IF CollectorType(th.kind) # ""
    THEN NewStepFactory(th.kind, FactoryStepID, th.collector, th.spec, ferr)
    ELSE NewStepFactoryWithoutCollector(th.kind, FactoryStepID, th.spec, ferr)

\* no Registry is in use
NoRegistry ==
    /\ registry = NewRegistry
    /\ mu = NewMutex
    /\ threads = [t \in {} |-> IdleThread]

\* the kinds of the model in the order slices.Sort puts strings in
KindOrder == <<"exec", "http", "http_get", "static", "terraform">>

\* slices.Sort of the keys lo.Keys returned in an arbitrary order
Sort(keys) == SelectSeq(KindOrder, LAMBDA k : k \in keys)

\* availableCollectors returning the keys in descending order
availableCollectorsUnsorted(r) ==
    LET sorted == Sort(DOMAIN r.collectors)
    IN  [i \in 1..Len(sorted) |-> sorted[Len(sorted) + 1 - i]]

\* Registry.availableCollectors()
availableCollectors(r) == Sort(DOMAIN r.collectors)

\* Registry.availableSteps()
availableSteps(r) == Sort(DOMAIN r.steps)

\* the calls the goroutines make: the method, and its kind or key argument
RegistryOp(op, kind, collector, spec) ==
    [op |-> op, kind |-> kind, collector |-> collector, spec |-> spec]
RegistryOps ==
    {RegistryOp("RegisterCollector", k, "", "") : k \in {"terraform", "http"}}
    \cup {RegistryOp("RegisterStep", k, "", "") : k \in {"static", "http_get"}}
    \cup {RegistryOp("RegisterDependency", "allowedEnvVars", "", "")}
    \cup {RegistryOp("CreateCollector", "http", "", t) : t \in {"v1.HTTPCollector", "string"}}
    \cup {RegistryOp("CreateCollector", "exec", "", "string")}
    \cup {RegistryOp("CreateStep", "http_get", "*http.Collector", t) :
             t \in {"v1.HTTPGetStep", "string"}}
    \cup {RegistryOp("CreateStep", "http_get", c, "v1.HTTPGetStep") :
             c \in {NilType, "*terraform.Collector"}}
    \cup {RegistryOp("CreateStep", "static", NilType, "v1.StaticStep"),
          RegistryOp("CreateStep", "exec", NilType, "string")}
    \cup {RegistryOp("AvailableCollectors", "", "", ""),
          RegistryOp("AvailableSteps", "", "", "")}

\* the map a method reads or writes
MapOf(op) ==
    IF op \in {"RegisterCollector", "CreateCollector", "AvailableCollectors"}
    THEN "collectors"
    ELSE IF op \in {"RegisterStep", "CreateStep", "AvailableSteps"} THEN "steps"
    ELSE "deps"

\* goroutine t is in a map access that another goroutine's access of the same
\* map overlaps, one of the two being a write
Races(t) ==
    \E u \in Threads \ {t} :
        /\ threads[u].accessing = threads[t].accessing
        /\ threads[u].accessing # ""
        /\ (threads[u].mode = "w" \/ threads[t].mode = "w")

\* a goroutine calls a method of the Registry
RegistryCall ==
    /\ pc = "registry"
    /\ \E t \in Threads, c \in RegistryOps :
        /\ threads[t].pc = "idle"
        /\ threads' = [threads EXCEPT ![t] =
             [IdleThread EXCEPT !.op = c.op, !.kind = c.kind,
                !.spec = c.spec, !.collector = c.collector,
                !.pc = IF c.op \in {"RegisterCollector", "RegisterStep"} THEN "Lock"
                       ELSE IF c.op = "RegisterDependency" THEN "Access"
                       ELSE "RLock"]]
    /\ UNCHANGED <<registry, mu>>
    /\ UNCHANGED <<pc, nonRegistryVars>>

\* r.mu.Lock()
Lock ==
    /\ pc = "registry"
    /\ \E t \in Threads :
        /\ threads[t].pc = "Lock"
        /\ mu.writer = NoWriter /\ mu.readers = {}
        /\ mu' = [mu EXCEPT !.writer = t]
        /\ threads' = [threads EXCEPT ![t].pc = "Access"]
    /\ UNCHANGED registry
    /\ UNCHANGED <<pc, nonRegistryVars>>

\* r.mu.RLock()
RLock ==
    /\ pc = "registry"
    /\ \E t \in Threads :
        /\ threads[t].pc = "RLock"
        /\ mu.writer = NoWriter
        /\ mu' = [mu EXCEPT !.readers = @ \cup {t}]
        /\ threads' = [threads EXCEPT ![t].pc = "Access"]
    /\ UNCHANGED registry
    /\ UNCHANGED <<pc, nonRegistryVars>>

\* a read or a write of a map begins: r.collectors, r.steps, or the helper's
\* deps (RegisterDependency, and GetRegistryDependency called by a factory)
AccessBegin ==
    /\ pc = "registry"
    /\ \E t \in Threads :
        /\ threads[t].pc \in {"Access", "DepAccess"}
        /\ threads' = [threads EXCEPT ![t] =
             [@ EXCEPT !.pc = "Accessing",
                       !.accessing = IF threads[t].pc = "DepAccess" THEN "deps"
                                     ELSE MapOf(threads[t].op),
                       !.mode = IF threads[t].pc = "Access"
                                   /\ threads[t].op \in {"RegisterCollector", "RegisterStep",
                                                         "RegisterDependency"}
                                THEN "w" ELSE "r"]]
    /\ UNCHANGED <<registry, mu>>
    /\ UNCHANGED <<pc, nonRegistryVars>>

\* the read or write ends.  A write of deps that overlaps another access, and a
\* read of deps that overlaps a write, is a data race on a Go map: the runtime
\* may stop the process, and a read may see the key or not.
AccessEnd ==
    /\ pc = "registry"
    /\ \E t \in Threads :
        LET th == threads[t]
            done == [th EXCEPT !.accessing = "", !.mode = ""]
        IN  /\ th.pc = "Accessing"
            /\ \/ /\ Races(t)
                  /\ pc' = "fatal"
                  /\ UNCHANGED <<registry, threads>>
               \/ /\ th.mode = "w"
                  /\ registry' =
                       [registry EXCEPT ![th.accessing] =
                          [k \in DOMAIN @ \cup {th.kind} |->
                             IF k = th.kind THEN "registered" ELSE @[k]]]
                  /\ threads' = [threads EXCEPT ![t] =
                       [done EXCEPT !.pc = IF th.op = "RegisterDependency"
                                           THEN "Return" ELSE "Unlock"]]
                  /\ UNCHANGED pc
               \/ /\ th.mode = "r" /\ th.accessing = "deps"
                  /\ \E found \in IF Races(t) THEN BOOLEAN
                                  ELSE {"allowedEnvVars" \in DOMAIN registry.deps} :
                       threads' = [threads EXCEPT ![t] =
                          [done EXCEPT !.pc = "Return",
                                       !.result = [NoResult EXCEPT
                                                     !.status = "created",
                                                     !.kind = th.kind,
                                                     !.dep = IF found THEN "found"
                                                             ELSE "missing"]]]
                  /\ UNCHANGED <<pc, registry>>
               \/ /\ th.mode = "r" /\ th.accessing # "deps"
                  /\ threads' = [threads EXCEPT ![t] =
                       [done EXCEPT !.pc = "RUnlock",
                                    !.ok = th.kind \in DOMAIN registry[th.accessing],
                                    !.available = IF th.accessing = "collectors"
                                                  THEN availableCollectors(registry)
                                                  ELSE availableSteps(registry)]]
                  /\ UNCHANGED <<pc, registry>>
    /\ UNCHANGED mu
    /\ UNCHANGED nonRegistryVars

\* the deferred r.mu.Unlock() of RegisterCollector / RegisterStep
Unlock ==
    /\ pc = "registry"
    /\ \E t \in Threads :
        /\ threads[t].pc = "Unlock"
        /\ mu' = [mu EXCEPT !.writer = NoWriter]
        /\ threads' = [threads EXCEPT ![t].pc = "Return"]
    /\ UNCHANGED registry
    /\ UNCHANGED <<pc, nonRegistryVars>>

\* r.mu.RUnlock(), and what follows it: the *UnsupportedTypeError of Create*
\* when the kind was not found, the list of Available*
RUnlock ==
    /\ pc = "registry"
    /\ \E t \in Threads :
        LET th == threads[t]
            category == IF th.op = "CreateCollector" THEN "collector" ELSE "step"
        IN  /\ th.pc = "RUnlock"
            /\ mu' = [mu EXCEPT !.readers = @ \ {t}]
            /\ threads' = [threads EXCEPT ![t] =
                 IF th.op \in {"AvailableCollectors", "AvailableSteps"}
                 THEN [th EXCEPT !.pc = "Return",
                                 !.result = [NoResult EXCEPT !.status = "kinds",
                                                             !.available = th.available]]
                 ELSE IF ~th.ok
                 THEN [th EXCEPT !.pc = "Return",
                                 !.result = UnsupportedTypeError(category, th.kind,
                                                                 th.available)]
                 ELSE [th EXCEPT !.pc = "Factory"]]
    /\ UNCHANGED registry
    /\ UNCHANGED <<pc, nonRegistryVars>>

\* factory(r.helper, ...): the factory checks the types of its arguments and
\* calls the typed factory, which builds the collector or step or fails, and
\* may look a dependency up first
InvokeFactory ==
    /\ pc = "registry"
    /\ \E t \in Threads, lookup \in BOOLEAN, ferr \in {Nil, "factory failed"} :
        /\ threads[t].pc = "Factory"
        /\ threads' = [threads EXCEPT ![t] =
             IF FactoryError(threads[t], ferr) # Nil
             THEN [@ EXCEPT !.invoked = TRUE, !.pc = "Return",
                            !.result = [NoResult EXCEPT
                                          !.status = "error",
                                          !.kind = threads[t].kind,
                                          !.err = FactoryError(threads[t], ferr)]]
             ELSE IF lookup THEN [@ EXCEPT !.invoked = TRUE, !.pc = "DepAccess"]
             ELSE [@ EXCEPT !.invoked = TRUE, !.pc = "Return",
                            !.result = [NoResult EXCEPT !.status = "created",
                                                        !.kind = threads[t].kind]]]
    /\ UNCHANGED <<registry, mu>>
    /\ UNCHANGED <<pc, nonRegistryVars>>

\* the method returns to its caller
RegistryReturn ==
    /\ pc = "registry"
    /\ \E t \in Threads :
        /\ threads[t].pc = "Return"
        /\ threads' = [threads EXCEPT ![t] = IdleThread]
    /\ UNCHANGED <<registry, mu>>
    /\ UNCHANGED <<pc, nonRegistryVars>>

(***************************************************************************)
(* terraform.Collector                                                     *)
(***************************************************************************)
\* strings.Split(s, "/") of a string whose "/" are tokens of their own
RECURSIVE SplitSlash(_)
SplitSlash(s) ==
    IF \A i \in 1..Len(s) : s[i] # "/" THEN <<Str(s)>>
    ELSE LET i == CHOOSE k \in 1..Len(s) :
                      s[k] = "/" /\ \A m \in 1..(k - 1) : s[m] # "/"
         IN  <<Str(SubSeq(s, 1, i - 1))>> \o SplitSlash(SubSeq(s, i + 1, Len(s)))

\* the registry namespace of a source that names none
UnknownProviderNamespace == "?"

\* a provider name ParseProviderPart refuses: it holds a space
InvalidProviderParts == {"invalid provider"}

\* tfaddr.ParseProviderSource(str): [hostname/][namespace/]name
ParseProviderSource(str) ==
    LET parts == SplitSlash(str)
        format == "Invalid provider source string: The \"source\" attribute must be "
                  \o "in the format \"[hostname/][namespace/]name\""
    IN  IF Len(parts) > 3 \/ \E i \in 1..Len(parts) : parts[i] = ""
        THEN [Namespace |-> "", Type |-> "", err |-> format]
        ELSE IF parts[Len(parts)] \in InvalidProviderParts
        THEN [Namespace |-> "", Type |-> "",
              err |-> "Invalid provider type: Invalid provider type \""
                      \o parts[Len(parts)] \o "\" in source \"" \o Str(str) \o "\""]
        ELSE [Namespace |-> IF Len(parts) = 1 THEN UnknownProviderNamespace
                            ELSE parts[Len(parts) - 1],
              Type |-> parts[Len(parts)], err |-> Nil]

\* strings.TrimPrefix(version, "v")
TrimPrefixV(version) ==
    IF version # <<>> /\ Head(version) = "v" THEN Tail(version) ELSE version

\* a nil *Collector
NilCollector == [nil |-> TRUE]

\* NewCollector(client, cfg): the provider is nil until Start has succeeded
NewCollector(cfg) ==
    LET p == ParseProviderSource(cfg.Provider)
    IN  IF p.err # Nil
        THEN [collector |-> NilCollector,
              err |-> "failed to parse provider source '" \o Str(cfg.Provider)
                      \o "': " \o p.err]
        ELSE [collector |-> [nil |-> FALSE, provider |-> Nil,
                             providerConfig |-> [Namespace |-> p.Namespace,
                                                 Name |-> p.Type,
                                                 Version |-> Str(TrimPrefixV(cfg.Version))]],
              err |-> Nil]

\* no terraform Collector has been made
NoCollector == tfCollector = NilCollector

\* Start creating and configuring a provider whatever c.provider is
StartAlwaysCreates(c, ctx, createErr, configureErr) ==
    IF createErr # Nil
    THEN [collector |-> c, err |-> "failed to create provider: " \o createErr,
          log |-> <<Call("client", "CreateProvider", "", ctx, <<>>, createErr)>>]
    ELSE IF configureErr # Nil
    THEN [collector |-> c, err |-> "failed to configure provider: " \o configureErr,
          log |-> <<Call("client", "CreateProvider", "", ctx, <<>>, Nil),
                    Call("provider", "Configure", "", ctx, <<>>, configureErr)>>]
    ELSE [collector |-> [c EXCEPT !.provider = "provider"], err |-> Nil,
          log |-> <<Call("client", "CreateProvider", "", ctx, <<>>, Nil),
                    Call("provider", "Configure", "", ctx, <<>>, Nil)>>]

\* Collector.Start(ctx); createErr and configureErr are what the client's
\* CreateProvider and the provider's Configure return when they are called
Start(c, ctx, createErr, configureErr) ==
    IF c.provider # Nil THEN [collector |-> c, err |-> Nil, log |-> <<>>]
    ELSE IF createErr # Nil
    THEN [collector |-> c, err |-> "failed to create provider: " \o createErr,
          log |-> <<Call("client", "CreateProvider", "", ctx, <<>>, createErr)>>]
    ELSE IF configureErr # Nil
    THEN [collector |-> c, err |-> "failed to configure provider: " \o configureErr,
          log |-> <<Call("client", "CreateProvider", "", ctx, <<>>, Nil),
                    Call("provider", "Configure", "", ctx, <<>>, configureErr)>>]
    ELSE [collector |-> [c EXCEPT !.provider = "provider"], err |-> Nil,
          log |-> <<Call("client", "CreateProvider", "", ctx, <<>>, Nil),
                    Call("provider", "Configure", "", ctx, <<>>, Nil)>>]

\* Collector.Close(ctx): the client's StopProvider, whose error is stopErr
CollectorClose(c, ctx, stopErr) ==
    [collector |-> c, err |-> stopErr,
     log |-> <<Call("client", "StopProvider", "", ctx, <<>>, stopErr)>>]

(***************************************************************************)
(* The clock, the pipeline's date, and the exec step                       *)
(*                                                                         *)
(* A time.Duration is a count of nanoseconds in 64 bits.  The model keeps  *)
(* a count as the sequence of its decimal digits, most significant first   *)
(* and without leading zeros (zero is the empty sequence), and a Duration  *)
(* as a sign and a count.  A duration string is the sequence of its        *)
(* characters: "1m30s" is <<"1", "m", "3", "0", "s">>.                     *)
(***************************************************************************)
\* ctx.Err() of a context whose deadline has passed
DeadlineExceeded == "context deadline exceeded"

\* the value of a decimal digit character
DigitValue(c) == CHOOSE n \in 0..9 : Digit(n) = c

\* a count without its leading zeros
Norm(a) ==
    IF \A i \in 1..Len(a) : a[i] = 0 THEN <<>>
    ELSE SubSeq(a, CHOOSE i \in 1..Len(a) : a[i] # 0 /\ \A k \in 1..(i - 1) : a[k] = 0,
                Len(a))

\* the count of a small number
RECURSIVE ToDigits(_)
ToDigits(n) == IF n = 0 THEN <<>> ELSE Append(ToDigits(n \div 10), n % 10)

\* a without its last digit, and its last digit
Front(a) == SubSeq(a, 1, Len(a) - 1)
Last(a) == a[Len(a)]

\* a * 10^p
BigShift(a, p) == IF a = <<>> THEN a ELSE a \o [i \in 1..p |-> 0]

\* a / 10^p, rounded down
BigDrop(a, p) == IF Len(a) <= p THEN <<>> ELSE SubSeq(a, 1, Len(a) - p)

\* a % 10^p, on p digits
BigLow(a, p) == [i \in 1..p |-> IF Len(a) - p + i >= 1 THEN a[Len(a) - p + i] ELSE 0]

\* a / k and a % k for a small k: long division over the digits from the i-th
\* on, with the quotient and the remainder so far
RECURSIVE BigDiv(_, _, _, _, _)
BigDiv(a, k, i, q, r) ==
    IF i > Len(a) THEN [q |-> Norm(q), r |-> r]
    ELSE BigDiv(a, k, i + 1, Append(q, (r * 10 + a[i]) \div k), (r * 10 + a[i]) % k)

\* a > b
BigGreater(a, b) ==
    \/ Len(a) > Len(b)
    \/ /\ Len(a) = Len(b)
       /\ \E i \in 1..Len(a) : a[i] > b[i] /\ \A k \in 1..(i - 1) : a[k] = b[k]

\* the digits of a count as Go prints them: fmtInt
fmtInt(a) == IF a = <<>> THEN "0" ELSE Str([i \in 1..Len(a) |-> Digit(a[i])])

\* 1 << 63
TwoTo63 == <<9, 2, 2, 3, 3, 7, 2, 0, 3, 6, 8, 5, 4, 7, 7, 5, 8, 0, 8>>

\* 1 << 64, where uint64 wraps around
TwoTo64 == <<1, 8, 4, 4, 6, 7, 4, 4, 0, 7, 3, 7, 0, 9, 5, 5, 1, 6, 1, 6>>

(***************************************************************************)
(* The arithmetic of time.ParseDuration: uint64 and float64.  The numbers  *)
(* it works on have up to 33 digits; for the arithmetic a count is held as *)
(* limbs of four digits, a limb being a number below 10000, the most       *)
(* significant first and none of them leading zeros.  No operator here     *)
(* walks along a number limb by limb: a carry is looked ahead.             *)
(***************************************************************************)
\* the limbs of a count
ToLimbs(a) ==
    LET n == (Len(a) + 3) \div 4
        pad == 4 * n - Len(a)
        digit(p) == IF p <= pad THEN 0 ELSE a[p - pad]
    IN  [i \in 1..n |-> 1000 * digit(4 * i - 3) + 100 * digit(4 * i - 2)
                        + 10 * digit(4 * i - 1) + digit(4 * i)]

\* the count of limbs
FromLimbs(l) ==
    Norm([p \in 1..(4 * Len(l)) |->
            (l[((p - 1) \div 4) + 1] \div (10 ^ (3 - ((p - 1) % 4)))) % 10])

\* a number below 10000^2 as limbs
SmallLimbs(n) ==
    IF n = 0 THEN <<>> ELSE IF n < 10000 THEN <<n>> ELSE <<n \div 10000, n % 10000>>

\* the limb of a at place p, the places counted from the least significant
\* one, which is place 1
Limb(a, p) == IF p >= 1 /\ p <= Len(a) THEN a[Len(a) + 1 - p] ELSE 0

\* a + b: a place takes a carry when a place under it overflows and every
\* place between the two is full
LimbAdd(a, b) ==
    LET w == IF Len(a) > Len(b) THEN Len(a) ELSE Len(b)
        s(p) == Limb(a, p) + Limb(b, p)
        carry(p) == IF \E j \in 1..(p - 1) :
                          s(j) >= 10000 /\ \A k \in (j + 1)..(p - 1) : s(k) = 9999
                    THEN 1 ELSE 0
    IN  Norm([i \in 1..(w + 1) |-> (s(w + 2 - i) + carry(w + 2 - i)) % 10000])

\* a - b, for a >= b: a place lends when a place under it falls short and
\* every place between the two is even
LimbSub(a, b) ==
    LET w == Len(a)
        d(p) == Limb(a, p) - Limb(b, p)
        borrow(p) == IF \E j \in 1..(p - 1) :
                           d(j) < 0 /\ \A k \in (j + 1)..(p - 1) : d(k) = 0
                     THEN 1 ELSE 0
    IN  Norm([i \in 1..w |-> (d(w + 1 - i) - borrow(w + 1 - i) + 10000) % 10000])

\* a * b, b of up to five limbs: the products of the limbs are summed by
\* place, and a sum, which is below 5 * 10000^2, is split over three places
LimbTimes(a, b) ==
    LET w == Len(a) + Len(b)
        col(p) == Limb(a, p) * Limb(b, 1) + Limb(a, p - 1) * Limb(b, 2)
                  + Limb(a, p - 2) * Limb(b, 3) + Limb(a, p - 3) * Limb(b, 4)
                  + Limb(a, p - 4) * Limb(b, 5)
        low  == [i \in 1..w |-> col(w + 1 - i) % 10000]
        mid  == [i \in 1..(w + 1) |->
                    IF i > w THEN 0 ELSE (col(w + 1 - i) \div 10000) % 10000]
        high == [i \in 1..(w + 2) |->
                    IF i > w THEN 0 ELSE col(w + 1 - i) \div 100000000]
    IN  The({LimbAdd(x, h) : x \in {LimbAdd(Norm(low), Norm(mid))}, h \in {Norm(high)}})

\* a >> j and the bits shifted out, for j up to 16.  10000^4 is a multiple of
\* 1<<16: what long division leaves after a limb depends on that limb and the
\* three before it.
LimbShr(a, j) ==
    LET at(i) == IF i >= 1 THEN a[i] ELSE 0
        left(i) == ((((((at(i - 3) % (2 ^ j)) * 10000 + at(i - 2)) % (2 ^ j)) * 10000
                       + at(i - 1)) % (2 ^ j)) * 10000 + at(i)) % (2 ^ j)
    IN  [q |-> Norm([i \in 1..Len(a) |-> (left(i - 1) * 10000 + a[i]) \div (2 ^ j)]),
         r |-> left(Len(a))]

\* how many times b goes into r, and what is left of r, for r < 10000 * b and
\* b[1] >= 5000: the two leading limbs of r over the leading limb of b, and
\* over that limb plus one, bound the answer from both sides
LimbFit(r, b) ==
    LET t  == Limb(r, Len(b) + 1) * 10000 + Limb(r, Len(b))
        hi == IF t \div b[1] > 9999 THEN 9999 ELSE t \div b[1]
        lo == IF Len(b) = 1 THEN hi ELSE t \div (b[1] + 1)
    IN  The({[k |-> x.k, r |-> LimbSub(r, x.kb)] :
             x \in {[k |-> k, kb |-> LimbTimes(b, SmallLimbs(k))] :
                       k \in {CHOOSE k \in lo..hi :
                                 /\ ~BigGreater(LimbTimes(b, SmallLimbs(k)), r)
                                 /\ BigGreater(LimbTimes(b, SmallLimbs(k + 1)), r)}}})

\* long division by b, b[1] >= 5000, over the first i limbs of a: the quotient
\* and what is left.  The limbs of a before the Len(b)-th are below b.
RECURSIVE LimbLong(_, _, _)
LimbLong(a, b, i) ==
    IF i < Len(b) THEN [q |-> <<>>, r |-> Norm(SubSeq(a, 1, i))]
    ELSE The({The({[q |-> Append(x.q, f.k), r |-> f.r] :
                   f \in {LimbFit(Norm(Append(x.r, a[i])), b)}}) :
              x \in {LimbLong(a, b, i - 1)}})

\* a / b, rounded down, and whether a % b is not zero, for b not zero: both
\* are scaled first for b to lead with a limb of 5000 or more
LimbQuot(a, b) ==
    The({[q |-> Norm(y.q), rest |-> y.r # <<>>] :
         y \in {LimbLong(x.a, x.b, Len(x.a)) :
                   x \in {[a |-> LimbTimes(a, SmallLimbs(10000 \div (b[1] + 1))),
                           b |-> LimbTimes(b, SmallLimbs(10000 \div (b[1] + 1)))]}}})

\* 1 << 36, 1 << 52, 1 << 53, 1 << 55 and 1 << 69 as limbs: the mantissa m of a
\* float64 that is not zero has 53 bits, 1<<52 <= m < 1<<53
TwoTo36 == ToLimbs(<<6, 8, 7, 1, 9, 4, 7, 6, 7, 3, 6>>)
TwoTo52 == ToLimbs(<<4, 5, 0, 3, 5, 9, 9, 6, 2, 7, 3, 7, 0, 4, 9, 6>>)
TwoTo53 == ToLimbs(<<9, 0, 0, 7, 1, 9, 9, 2, 5, 4, 7, 4, 0, 9, 9, 2>>)
TwoTo55 == ToLimbs(<<3, 6, 0, 2, 8, 7, 9, 7, 0, 1, 8, 9, 6, 3, 9, 6, 8>>)
TwoTo69 == ToLimbs(<<5, 9, 0, 2, 9, 5, 8, 1, 0, 3, 5, 8, 7, 0, 5, 6, 5, 1, 7, 1, 2>>)

\* what is lost of a value when the bits under 2^j are dropped: r is what
\* these bits held and lost what was lost below them.  0 stands for nothing,
\* 1 for less than half of 2^j, 2 for the half, 3 for more.
lostBits(r, j, lost) ==
    IF j <= 0 THEN lost
    ELSE IF r = 0 THEN (IF lost = 0 THEN 0 ELSE 1)
    ELSE IF 2 * r < 2 ^ j THEN 1
    ELSE IF 2 * r = 2 ^ j THEN (IF lost = 0 THEN 2 ELSE 3)
    ELSE 3

\* n shifted by j bits, to the right for j > 0 and to the left for j < 0, j
\* between -16 and 16
LimbShift(n, j) ==
    IF j >= 0 THEN LimbShr(n, j) ELSE [q |-> LimbTimes(n, SmallLimbs(2 ^ (-j))), r |-> 0]

\* m has 53 bits
Has53Bits(m) == ~BigGreater(TwoTo52, m) /\ BigGreater(TwoTo53, m)

\* A float64 is [m, e], the value m * 2^e, m as limbs.  The exponent is not
\* bounded here: where a float64 of the machine would be subnormal or
\* infinite, the term ParseDuration computes with it is under a nanosecond
\* either way.
\*
\* the float64 nearest to m * 2^e + what is lost below it, ties to even, m of
\* 53 bits
Nearest(m, e, lost) ==
    IF lost = 3 \/ (lost = 2 /\ Last(m) % 2 = 1)
    THEN (IF LimbAdd(m, <<1>>) = TwoTo53 THEN [m |-> TwoTo52, e |-> e + 1]
          ELSE [m |-> LimbAdd(m, <<1>>), e |-> e])
    ELSE [m |-> m, e |-> e]

\* the same for any n: n is brought between 1<<36 and 1<<69 sixteen bits at a
\* time, and then to 53 bits in one shift
RECURSIVE round64(_, _, _)
round64(n, e, lost) ==
    IF n = <<>> THEN [m |-> <<>>, e |-> 0]
    ELSE IF ~BigGreater(TwoTo69, n)
    THEN round64(LimbShr(n, 16).q, e + 16, lostBits(LimbShr(n, 16).r, 16, lost))
    ELSE IF BigGreater(TwoTo36, n)
    THEN round64(LimbTimes(n, SmallLimbs(2 ^ 16)), e - 16, lost)
    ELSE The({Nearest(h.q, e + h.j, lostBits(h.r, h.j, lost)) :
              h \in {[q |-> LimbShift(n, j).q, r |-> LimbShift(n, j).r, j |-> j] :
                        j \in {CHOOSE j \in -16..16 : Has53Bits(LimbShift(n, j).q)}}})

\* float64(n) of a uint64
float64(n) == round64(ToLimbs(n), 0, 0)

\* a * b of two float64
mul64(a, b) == The({round64(n, a.e + b.e, 0) : n \in {LimbTimes(a.m, b.m)}})

\* a / b of two float64, b not zero: the quotient of the mantissas is taken
\* with 55 bits more than it has
div64(a, b) ==
    IF a.m = <<>> THEN a
    ELSE The({round64(x.q, a.e - b.e - 55, IF x.rest THEN 1 ELSE 0) :
              x \in {LimbQuot(LimbTimes(a.m, TwoTo55), b.m)}})

\* uint64(x) of a float64 that is not negative: m * 2^e without its fraction,
\* as limbs, the bits shifted sixteen at a time
RECURSIVE uint64(_, _)
uint64(m, e) ==
    IF m = <<>> \/ e = 0 THEN m
    ELSE IF e > 0
    THEN uint64(LimbTimes(m, SmallLimbs(2 ^ (IF e > 16 THEN 16 ELSE e))),
                IF e > 16 THEN e - 16 ELSE 0)
    ELSE uint64(LimbShr(m, IF e < -16 THEN 16 ELSE -e).q, IF e < -16 THEN e + 16 ELSE 0)

\* scale of leadingFraction after n digits: 1, and `scale *= 10` n times.  Up
\* to 1e22 every one of these products is a float64 as it is (5^22 < 1<<53):
\* the scale is then float64 of the count 10^n.
RECURSIVE scale64(_)
scale64(n) ==
    IF n <= 22 THEN round64(ToLimbs(<<1>> \o [i \in 1..n |-> 0]), 0, 0)
    ELSE The({mul64(scale, ten) : scale \in {scale64(n - 1)}, ten \in {float64(<<1, 0>>)}})

\* a Duration: negative or not, and the count of its nanoseconds
Duration(neg, ns) == [neg |-> neg /\ ns # <<>>, ns |-> ns]

\* the units of time.ParseDuration: unitMap[u] is c * 10^p nanoseconds
unitMap(u) ==
    IF u = "ns" THEN [ok |-> TRUE, c |-> 1, p |-> 0]
    ELSE IF u \in {"us", "µs", "μs"} THEN [ok |-> TRUE, c |-> 1, p |-> 3]
    ELSE IF u = "ms" THEN [ok |-> TRUE, c |-> 1, p |-> 6]
    ELSE IF u = "s" THEN [ok |-> TRUE, c |-> 1, p |-> 9]
    ELSE IF u = "m" THEN [ok |-> TRUE, c |-> 6, p |-> 10]
    ELSE IF u = "h" THEN [ok |-> TRUE, c |-> 36, p |-> 11]
    ELSE [ok |-> FALSE, c |-> 0, p |-> 0]

\* the length of the longest prefix of s whose characters are all digits
\* (digits TRUE), or none of them a digit or "." (digits FALSE)
Leading(s, digits) ==
    LET in(c) == IF digits THEN c \in Digits ELSE c \notin Digits \cup {"."}
    IN  CHOOSE n \in 0..Len(s) : /\ \A i \in 1..n : in(s[i])
                                 /\ n = Len(s) \/ ~in(s[n + 1])

\* the count a sequence of digit characters spells
Count(s) == Norm([i \in 1..Len(s) |-> DigitValue(s[i])])

\* strconv-style quoting of a string without special characters
quote(s) == "\"" \o Str(s) \o "\""

\* time: leadingFraction over the digits s: x is the count of the digits
\* taken and n their number.  A digit that would take the count past 1<<63 is
\* not taken, nor is any digit after it (x > (1<<63-1)/10 is such a case:
\* then x*10 is past 1<<63); the count only grows with a digit, so the digits
\* taken are the longest prefix whose count is not past 1<<63.
leadingFraction(s) ==
    LET n == CHOOSE n \in 0..Len(s) :
                /\ ~BigGreater(Count(SubSeq(s, 1, n)), TwoTo63)
                /\ n = Len(s) \/ BigGreater(Count(SubSeq(s, 1, n + 1)), TwoTo63)
    IN  [x |-> Count(SubSeq(s, 1, n)), n |-> n]

\* time.ParseDuration: uint64(float64(f) * (float64(unit) / scale)), as limbs,
\* for the fraction fr that leadingFraction returns
fraction(fr, unit) ==
    IF fr.x = <<>> THEN <<>>
    ELSE The({uint64(x.m, x.e) :
              x \in {mul64(f, y) :
                       f \in {float64(fr.x)},
                       y \in {div64(a, scale) :
                                a \in {float64(unit)}, scale \in {scale64(fr.n)}}}})

\* time.ParseDuration: the arithmetic of a pass of the loop, for v units and
\* the fraction fr of one, d being the sum so far as limbs: most is the most
\* units there may be, term the v of the end of the pass and sum the `d += v`
\* of uint64
termValue(invalid, rest, d, v, fr, unit) ==
    The({IF BigGreater(x.v, x.most) THEN [err |-> invalid, rest |-> <<>>, d |-> <<>>]
         ELSE IF BigGreater(x.term, ToLimbs(TwoTo63))
         THEN [err |-> invalid, rest |-> <<>>, d |-> <<>>]
         ELSE IF x.sum = ToLimbs(TwoTo64) THEN [err |-> Nil, rest |-> rest, d |-> <<>>]
         ELSE IF BigGreater(x.sum, ToLimbs(TwoTo63))
         THEN [err |-> invalid, rest |-> <<>>, d |-> <<>>]
         ELSE [err |-> Nil, rest |-> rest, d |-> x.sum] :
         x \in {[v |-> y.v, most |-> y.most, term |-> term, sum |-> LimbAdd(y.d, term)] :
                  y \in {[v |-> ToLimbs(v), d |-> d,
                          most |-> LimbQuot(ToLimbs(TwoTo63), ToLimbs(unit)).q]},
                  term \in {LimbAdd(whole, frac) :
                              whole \in {LimbTimes(ToLimbs(v), ToLimbs(unit))},
                              frac \in {fraction(fr, unit)}}}})

\* time.ParseDuration: one pass of the loop `for s != ""` over s, d being the
\* sum so far as limbs: the error, or what is left of s and the new sum
parseTerm(orig, s, d) ==
    LET invalid == "time: invalid duration " \o quote(orig)
        pre  == Leading(s, TRUE)
        v    == Count(SubSeq(s, 1, pre))
        s1   == SubSeq(s, pre + 1, Len(s))
        dot  == s1 # <<>> /\ Head(s1) = "."
        s2   == IF dot THEN Tail(s1) ELSE s1
        post == IF dot THEN Leading(s2, TRUE) ELSE 0
        s3   == SubSeq(s2, post + 1, Len(s2))
        i    == Leading(s3, FALSE)
        u    == SubSeq(s3, 1, i)
    IN  IF Head(s) \notin Digits \cup {"."}
        THEN [err |-> invalid, rest |-> <<>>, d |-> <<>>]
        ELSE IF BigGreater(v, TwoTo63) THEN [err |-> invalid, rest |-> <<>>, d |-> <<>>]
        ELSE IF pre = 0 /\ post = 0 THEN [err |-> invalid, rest |-> <<>>, d |-> <<>>]
        ELSE IF i = 0
        THEN [err |-> "time: missing unit in duration " \o quote(orig),
              rest |-> <<>>, d |-> <<>>]
        ELSE IF ~unitMap(Str(u)).ok
        THEN [err |-> "time: unknown unit " \o quote(u) \o " in duration "
                      \o quote(orig),
              rest |-> <<>>, d |-> <<>>]
        ELSE The({termValue(invalid, SubSeq(s3, i + 1, Len(s3)), d, v, fr, unit) :
                  fr \in {leadingFraction(SubSeq(s2, 1, post))},
                  unit \in {BigShift(ToDigits(unitMap(Str(u)).c), unitMap(Str(u)).p)}})

\* time.ParseDuration: the loop `for s != ""`, d being the sum so far, as limbs
RECURSIVE parseTerms(_, _, _)
parseTerms(orig, s, d) ==
    IF s = <<>> THEN [d |-> FromLimbs(d), err |-> Nil]
    ELSE The({IF x.err # Nil THEN [d |-> <<>>, err |-> x.err]
              ELSE parseTerms(orig, x.rest, x.d) :
              x \in {parseTerm(orig, s, d)}})

\* time.ParseDuration(s): [-+]?([0-9]*(\.[0-9]*)?[a-z]+)+, and "0"
ParseDuration(s) ==
    LET signed == s # <<>> /\ Head(s) \in {"-", "+"}
        neg    == signed /\ Head(s) = "-"
        rest   == IF signed THEN Tail(s) ELSE s
        invalid == [d |-> Duration(FALSE, <<>>),
                    err |-> "time: invalid duration " \o quote(s)]
    IN  IF rest = <<"0">> THEN [d |-> Duration(FALSE, <<>>), err |-> Nil]
        ELSE IF rest = <<>> THEN invalid
        ELSE The({ IF r.err # Nil THEN [d |-> Duration(FALSE, <<>>), err |-> r.err]
                   ELSE IF ~neg /\ r.d = TwoTo63 THEN invalid
                   ELSE [d |-> Duration(neg, r.d), err |-> Nil]
                   : r \in {parseTerms(s, rest, <<>>)} })

\* time: fmtFrac, the fraction of v / 10^prec with its trailing zeros dropped
\* and the decimal point before it, empty when the fraction is zero
RECURSIVE DropZeros(_)
DropZeros(a) == IF a # <<>> /\ Last(a) = 0 THEN DropZeros(Front(a)) ELSE a
fmtFrac(v, prec) ==
    LET digits == DropZeros(BigLow(v, prec))
    IN  IF digits = <<>> THEN ""
        ELSE "." \o Str([i \in 1..Len(digits) |-> Digit(digits[i])])

\* time.Duration.String(), as the verb %s prints a duration
DurationString(d) ==
    LET u == d.ns
        sign == IF d.neg THEN "-" ELSE ""
        secs == BigDiv(BigDrop(u, 9), 60, 1, <<>>, 0)
        mins == BigDiv(secs.q, 60, 1, <<>>, 0)
    IN  IF u = <<>> THEN "0s"
        ELSE IF Len(u) <= 3 THEN sign \o fmtInt(u) \o "ns"
        ELSE IF Len(u) <= 6
        THEN sign \o fmtInt(BigDrop(u, 3)) \o fmtFrac(u, 3) \o "µs"
        ELSE IF Len(u) <= 9
        THEN sign \o fmtInt(BigDrop(u, 6)) \o fmtFrac(u, 6) \o "ms"
        ELSE sign
             \o (IF mins.q # <<>> THEN fmtInt(mins.q) \o "h" ELSE "")
             \o (IF secs.q # <<>> THEN fmtInt(ToDigits(mins.r)) \o "m" ELSE "")
             \o fmtInt(ToDigits(secs.r)) \o fmtFrac(u, 9) \o "s"

\* defaultTimeout = 30 * time.Second
defaultTimeout == Duration(FALSE, BigShift(<<3, 0>>, 9))

\* a duration that context.WithTimeout turns into a deadline already passed
NotPositive(d) == d.neg \/ d.ns = <<>>

\* defaultFormat
defaultFormat == "json"

\* NewExecStep(name, logger, cfg): the timeout and the format the Resolve
\* function is built with, or the error.  A pointer field of cfg is
\* [nil |-> TRUE] or [nil |-> FALSE, elem |-> the value].
NewExecStep(cfg) ==
    IF cfg.Program = <<>>
    THEN [timeout |-> Duration(FALSE, <<>>), format |-> "",
          err |-> "program is required"]
    ELSE IF ~cfg.Timeout.nil /\ ParseDuration(cfg.Timeout.elem).err # Nil
    THEN [timeout |-> Duration(FALSE, <<>>), format |-> "",
          err |-> "invalid timeout " \o quote(cfg.Timeout.elem) \o ": "
                  \o ParseDuration(cfg.Timeout.elem).err]
    ELSE [timeout |-> IF cfg.Timeout.nil THEN defaultTimeout
                      ELSE ParseDuration(cfg.Timeout.elem).d,
          format |-> IF cfg.Format.nil THEN defaultFormat ELSE cfg.Format.elem,
          err |-> Nil]

\* cmd.Env as the child sees it: os.Environ(), then the entries of cfg.Env
\* appended, a later entry hiding an earlier one of the same name; from tells
\* where the value the child sees comes from
cmdEnv(environ, additions) ==
    [n \in {k \in DOMAIN environ : environ[k].set} \cup DOMAIN additions |->
        IF n \in DOMAIN additions
        THEN [val |-> additions[n], from |-> "cfg.Env"]
        ELSE [val |-> environ[n].val, from |-> "os.Environ"]]

\* the outcome of cmd.Run for a command that was not started
NotRun(err) == [err |-> err, stderr |-> <<>>, stdout |-> <<>>]

\* no exec step is under Resolve
NoProcess ==
    [state |-> "none", expired |-> FALSE, timeout |-> Duration(FALSE, <<>>),
     format |-> "",
     env |-> EmptyMap, run |-> NotRun(Nil)]

\* no response: client.Do has not returned one
NoResponse == [err |-> Nil, StatusCode |-> 0, body |-> Nil]

\* no command is run
NoCommand ==
    [job |-> <<>>, passEnv |-> <<>>, passAllEnv |-> FALSE, trustRemote |-> FALSE,
     data |-> [unmarshal |-> Nil, validate |-> Nil], tty |-> FALSE,
     stdin |-> <<>>, ctxValue |-> [ok |-> FALSE, interactive |-> FALSE]]

\* the clock has not been read, no pipeline has a date, no exec step is run
NoSys ==
    /\ clock = 0
    /\ date = 0
    /\ proc = NoProcess
    /\ cmd = NoCommand
    /\ resp = NoResponse

\* ctx.Err() of the context Resolve derives with context.WithTimeout
StepCtxErr ==
    IF proc.expired THEN DeadlineExceeded
    ELSE IF cancelled THEN ContextCanceled
    ELSE Nil

\* strings.TrimSpace on a sequence of tokens
RECURSIVE TrimSpace(_)
TrimSpace(s) ==
    IF s = <<>> THEN s
    ELSE IF Head(s) \in {" ", "\n", "\r", "\t"} THEN TrimSpace(Tail(s))
    ELSE IF s[Len(s)] \in {" ", "\n", "\r", "\t"} THEN TrimSpace(SubSeq(s, 1, Len(s) - 1))
    ELSE s

\* encoding/json deciding whether the output is one JSON value
IsJSON(stdout) == stdout \in {<<"{\"a\":1}">>, <<"[]">>}

\* json.NewDecoder(&stdout).Decode(&parsed), for an output that is one JSON value,
\* is empty, or is a text of single characters none of which begins a JSON
\* value: the decoder reports the end of an empty input as io.EOF, and the
\* first character of a text it cannot read
jsonDecode(stdout) ==
    IF TrimSpace(stdout) = <<>> THEN [data |-> <<>>, err |-> "EOF"]
    ELSE IF IsJSON(stdout) THEN [data |-> stdout, err |-> Nil]
    ELSE [data |-> <<>>,
          err |-> "invalid character '" \o Head(TrimSpace(stdout))
                  \o "' looking for beginning of value"]

\* base64.StdEncoding of the outputs of the commands
Base64(stdout) ==
    IF Str(stdout) = "" THEN ""
    ELSE IF Str(stdout) = "{\"a\":1}" THEN "eyJhIjoxfQ=="
    ELSE IF Str(stdout) = "[]" THEN "W10="
    ELSE "b29wcw=="

\* strings.Join(elems, sep)
RECURSIVE stringsJoin(_, _)
stringsJoin(elems, sep) ==
    IF elems = <<>> THEN ""
    ELSE IF Len(elems) = 1 THEN elems[1]
    ELSE elems[1] \o sep \o stringsJoin(Tail(elems), sep)

\* engine.Result{} and an error: no data and a nil Meta
ZeroResult(err) == [data |-> <<>>, meta |-> EmptyMap, err |-> err]

\* the Meta of the result of an exec step
execMeta(program, format) ==
    [exec_program |-> stringsJoin(program, " "), exec_format |-> format]

\* what Resolve returns once cmd.Run has returned, with the deadline not looked at
execResultNoDeadline(run, ctxErr, timeout, format, program) ==
    IF run.err # Nil
    THEN IF TrimSpace(run.stderr) # <<>>
         THEN ZeroResult("command failed: " \o run.err \o ": " \o Str(TrimSpace(run.stderr)))
         ELSE ZeroResult("command failed: " \o run.err)
    ELSE IF format = "json"
    THEN IF jsonDecode(run.stdout).err = Nil
         THEN [data |-> jsonDecode(run.stdout).data, meta |-> execMeta(program, format),
               err |-> Nil]
         ELSE ZeroResult("failed to parse output as JSON: " \o jsonDecode(run.stdout).err)
    ELSE [data |-> <<"output", Base64(run.stdout)>>, meta |-> execMeta(program, format),
          err |-> Nil]

\* what Resolve returns once cmd.Run has returned: run is the error of
\* cmd.Run and the two buffers, ctxErr is ctx.Err() at that moment
execResult(run, ctxErr, timeout, format, program) ==
    IF run.err # Nil
    THEN IF ctxErr = DeadlineExceeded
         THEN ZeroResult("command timed out after " \o DurationString(timeout)
                       \o ": " \o Str(TrimSpace(run.stderr)))
         ELSE IF TrimSpace(run.stderr) # <<>>
         THEN ZeroResult("command failed: " \o run.err \o ": " \o Str(TrimSpace(run.stderr)))
         ELSE ZeroResult("command failed: " \o run.err)
    ELSE IF format = "json"
    THEN IF jsonDecode(run.stdout).err = Nil
         THEN [data |-> jsonDecode(run.stdout).data, meta |-> execMeta(program, format),
               err |-> Nil]
         ELSE ZeroResult("failed to parse output as JSON: " \o jsonDecode(run.stdout).err)
    ELSE [data |-> <<"output", Base64(run.stdout)>>, meta |-> execMeta(program, format),
          err |-> Nil]

(***************************************************************************)
(* engine.Pipeline                                                         *)
(***************************************************************************)
\* NewPipeline: an empty collectors map and a nil steps slice
NewPipeline == [collectors |-> EmptyMap, steps |-> <<>>]

\* AddCollector replacing the registered instance before it reports the duplicate
AddCollectorOverwrites(p, id, collector) ==
    IF id \in DOMAIN p.collectors
    THEN [pipeline |-> [p EXCEPT !.collectors[id] = collector],
          err |-> "collector " \o id \o " already exists"]
    ELSE [pipeline |-> [p EXCEPT !.collectors =
                          [k \in DOMAIN p.collectors \cup {id} |->
                             IF k = id THEN collector ELSE p.collectors[k]]],
          err |-> Nil]

\* Pipeline.AddCollector(id, collector)
AddCollector(p, id, collector) ==
    IF id \in DOMAIN p.collectors
    THEN [pipeline |-> p, err |-> "collector " \o id \o " already exists"]
    ELSE [pipeline |-> [p EXCEPT !.collectors =
                          [k \in DOMAIN p.collectors \cup {id} |->
                             IF k = id THEN collector ELSE p.collectors[k]]],
          err |-> Nil]

\* Pipeline.AddStep(id, step)
AddStep(p, id, step) ==
    IF \E i \in 1..Len(p.steps) : p.steps[i].ID = id
    THEN [pipeline |-> p, err |-> "step " \o id \o " already exists"]
    ELSE [pipeline |-> [p EXCEPT !.steps = Append(p.steps, [ID |-> id, Step |-> step])],
          err |-> Nil]

\* the pipeline of the Runner built for job j: createPipeline adds one collector
\* per collector spec and one step per step spec, in declaration order
RunnerPipeline(j) ==
    [collectors |-> [id \in Collectors(j) |-> CollectorName(id)],
     steps |-> [i \in 1..j.nSteps |-> [ID |-> StepID(i), Step |-> StepID(i)]]]

(***************************************************************************)
(* runner.New: createPipeline, buildEncoder, buildSink                     *)
(***************************************************************************)
\* strings.HasPrefix(s, prefix)
HasPrefix(s, prefix) ==
    Len(s) >= Len(prefix) /\ SubSeq(s, 1, Len(prefix)) = prefix

\* the elements of a path between its separators, empty ones included
RECURSIVE Segments(_)
Segments(path) ==
    IF \A i \in 1..Len(path) : path[i] # "/" THEN <<path>>
    ELSE The({<<SubSeq(path, 1, i - 1)>> \o Segments(SubSeq(path, i + 1, Len(path))) :
              i \in {CHOOSE k \in 1..Len(path) :
                        path[k] = "/" /\ \A j \in 1..(k - 1) : path[j] # "/"}})

\* filepath.Clean of a rooted path, element by element: empty and "." elements
\* are dropped, ".." drops the element before it, and nothing goes above the root
RECURSIVE cleanFrom(_, _)
cleanFrom(segs, out) ==
    IF segs = <<>> THEN out
    ELSE IF Head(segs) \in {<<>>, <<".">>} THEN cleanFrom(Tail(segs), out)
    ELSE IF Head(segs) = <<"..">>
    THEN cleanFrom(Tail(segs), IF out = <<>> THEN out ELSE SubSeq(out, 1, Len(out) - 1))
    ELSE cleanFrom(Tail(segs), Append(out, Head(segs)))

\* a rooted path of the given elements
RECURSIVE Rooted(_)
Rooted(segs) ==
    IF segs = <<>> THEN <<>> ELSE <<"/">> \o Head(segs) \o Rooted(Tail(segs))

\* filepath.Clean(path), for a rooted path
Clean(path) ==
    The({IF out = <<>> THEN <<"/">> ELSE Rooted(out) : out \in {cleanFrom(Segments(path), <<>>)}})

\* filepath.Join(dir, name), for a rooted dir
Join(dir, name) == Clean(IF name = <<>> THEN dir ELSE dir \o <<"/">> \o name)

\* url.Parse(rawURL) for a URL whose ":" and "/" are tokens of their own: the
\* scheme is what stands before a ":" in second place; "%zz" is a bad escape
urlParse(u) ==
    IF \E i \in 1..Len(u) : u[i] = "%zz"
    THEN [Scheme |-> "",
          err |-> "parse \"" \o Str(u) \o "\": invalid URL escape \"%zz\""]
    ELSE [Scheme |-> IF Len(u) >= 2 /\ u[2] = ":" THEN u[1] ELSE "", err |-> Nil]

\* http.NewCollector(cfg): the error it returns
httpNewCollector(cfg) ==
    IF cfg.BaseURL = <<>> THEN "base_url is required"
    ELSE LET parsedURL == urlParse(cfg.BaseURL)
         IN  IF parsedURL.err # Nil
             THEN "failed to parse base_url '" \o Str(cfg.BaseURL) \o "': " \o parsedURL.err
             ELSE IF parsedURL.Scheme # "http" /\ parsedURL.Scheme # "https"
             THEN "base_url must use http or https scheme, got: " \o parsedURL.Scheme
             ELSE Nil

\* buildHTTPCollector(spec): the error it returns
buildHTTPCollector(spec) ==
    LET err == httpNewCollector([BaseURL |-> spec.BaseURL])
    IN  IF err # Nil THEN "failed to create http collector: " \o err ELSE Nil

\* NewStaticStep(name, cfg): the error it returns
NewStaticStep(cfg) ==
    IF ~cfg.Filepath.nil /\ ~cfg.Value.nil THEN "both filepath and value are set"
    ELSE IF cfg.Filepath.nil /\ cfg.Value.nil THEN "neither filepath nor value are set"
    ELSE Nil

\* buildStaticStep(id, spec): the error it returns
buildStaticStep(spec) ==
    NewStaticStep([Filepath |-> spec.Filepath, Value |-> spec.Value,
                   ParseAs |-> spec.ParseAs])

\* collector specs: http with a base_url, terraform with a provider source
HTTPSpec(id, baseURL) == [ID |-> id, kind |-> "http", BaseURL |-> baseURL]
TerraformSpec(id, provider) ==
    [ID |-> id, kind |-> "terraform", Provider |-> provider, Version |-> <<"v", "5.0">>]

\* job.Spec.Collectors: one collector, of a known or of no type, with a
\* configuration its constructor accepts or refuses, or the same id twice
CollectorSpecLists ==
    {<<>>,
     <<HTTPSpec(CollectorID(1), <<"http", ":", "/", "/", "api">>)>>,
     <<HTTPSpec(CollectorID(1), <<>>)>>,
     <<HTTPSpec(CollectorID(1), <<"ftp", ":", "/", "/", "api">>)>>,
     <<HTTPSpec(CollectorID(1), <<"http", ":", "/", "/", "%zz">>)>>,
     <<TerraformSpec(CollectorID(1), <<"hashicorp", "/", "aws">>)>>,
     <<TerraformSpec(CollectorID(1), <<"invalid provider">>)>>,
     <<[ID |-> CollectorID(1), kind |-> ""]>>,
     <<HTTPSpec(CollectorID(1), <<"http", ":", "/", "/", "api">>),
       HTTPSpec(CollectorID(1), <<"http", ":", "/", "/", "api">>)>>}

\* a static step spec: filepath, value and parse_as are pointers
StaticSpec(id, filepath, value) ==
    [ID |-> id, kind |-> "static", collector |-> Nil,
     Filepath |-> filepath, Value |-> value, ParseAs |-> [nil |-> TRUE]]

\* a static step with a value alone
StaticValueSpec(id) == StaticSpec(id, [nil |-> TRUE], [nil |-> FALSE, elem |-> <<"safe">>])

\* job.Spec.Steps: one step, with or without a collector reference, a static
\* step with a value, with nothing or with both, or the same id twice
StepSpecLists ==
    {<<>>,
     <<StaticValueSpec(StepID(1))>>,
     <<StaticSpec(StepID(1), [nil |-> TRUE], [nil |-> TRUE])>>,
     <<StaticSpec(StepID(1), [nil |-> FALSE, elem |-> <<"a.json">>],
                  [nil |-> FALSE, elem |-> <<"safe">>])>>,
     <<[ID |-> StepID(1), kind |-> "http_get", collector |-> Nil]>>,
     <<[ID |-> StepID(1), kind |-> "http_get", collector |-> CollectorID(1)]>>,
     <<[ID |-> StepID(1), kind |-> "http_get", collector |-> "ghost"]>>,
     <<[ID |-> StepID(1), kind |-> "terraform_datasource", collector |-> CollectorID(1)]>>,
     <<[ID |-> StepID(1), kind |-> "", collector |-> Nil]>>,
     <<StaticValueSpec(StepID(1)), StaticValueSpec(StepID(1))>>}

\* the values of output.sink.filesystem.path
SinkPaths ==
    {<<>>,
     <<"/", "w", "/", "out">>,
     <<"/", "dev", "/", "null", "/", ".", "/", "out", "/">>}

\* output.sink with what the machine answers to its constructor: the working
\* directory is asked for when no path is given, the AWS configuration is
\* loaded for the S3 sink
SinkSettings ==
    {k \in [sink : {Nil, "stdout", "filesystem", "s3", "{}"},
            path : SinkPaths,
            getwd : {Nil, "getwd: no such file or directory"},
            awsConfig : {Nil, "failed to get shared config profile, missing"}] :
        /\ k.sink = "filesystem" \/ (k.path = <<>> /\ k.getwd = Nil)
        /\ k.path = <<>> \/ k.getwd = Nil
        /\ k.sink = "s3" \/ k.awsConfig = Nil}

\* the jobs New is called with: output is FALSE for a nil job.Spec.Output; sink is
\* Nil for a nil Output.Sink, "{}" for a sink spec naming no sink type; encoding
\* likewise, and indent is output.encoding.json.indent; compression is
\* output.archive.compression; tfclient is the error tfclient.New returns; path is
\* output.sink.filesystem.path, empty when it is not given; getwd is the error
\* os.Getwd returns and awsConfig the error config.LoadDefaultConfig returns
NewJobs ==
    {j \in {[name |-> "demo", nSteps |-> Len(ss), nCols |-> Len(cs), archive |-> a,
             compression |-> z, archiveName |-> "", output |-> o, sink |-> k.sink,
             encoding |-> e, indent |-> d, tfclient |-> t,
             path |-> k.path, getwd |-> k.getwd, awsConfig |-> k.awsConfig,
             collectorSpecs |-> cs, stepSpecs |-> ss] :
               cs \in CollectorSpecLists, ss \in StepSpecLists, a \in BOOLEAN,
               z \in {"", "bzip2"},
               o \in BOOLEAN, k \in SinkSettings,
               e \in {Nil, "json", "{}"}, d \in {NoIndent, TwoSpaces},
               t \in {Nil, "plugin directory not writable"}} :
        /\ j.output \/ (~j.archive /\ j.sink = Nil /\ j.encoding = Nil)
        /\ j.archive \/ j.compression = ""
        /\ j.encoding = "json" \/ j.indent = NoIndent}

\* createPipeline: the loop over spec.Collectors, from the i-th spec on
RECURSIVE createCollectors(_, _, _)
createCollectors(p, specs, i) ==
    IF i > Len(specs) THEN [pipeline |-> p, err |-> Nil]
    ELSE LET c == specs[i]
         IN  IF c.kind = "terraform"
             THEN LET n == NewCollector([Provider |-> c.Provider, Version |-> c.Version])
                      r == AddCollector(p, c.ID, [kind |-> c.kind, ID |-> c.ID])
                  IN  IF n.err # Nil
                      THEN [pipeline |-> Nil,
                            err |-> "failed to create terraform collector: " \o n.err]
                      ELSE IF r.err # Nil
                      THEN [pipeline |-> Nil,
                            err |-> "failed to add terraform collector: " \o r.err]
                      ELSE createCollectors(r.pipeline, specs, i + 1)
             ELSE IF c.kind = "http"
             THEN LET n == buildHTTPCollector(c)
                      r == AddCollector(p, c.ID, [kind |-> c.kind, ID |-> c.ID])
                  IN  IF n # Nil
                      THEN [pipeline |-> Nil,
                            err |-> "failed to build http collector: " \o n]
                      ELSE IF r.err # Nil
                      THEN [pipeline |-> Nil,
                            err |-> "failed to add http collector: " \o r.err]
                      ELSE createCollectors(r.pipeline, specs, i + 1)
             ELSE [pipeline |-> Nil, err |-> "unknown collector type: " \o c.ID]

\* createPipeline: a step that refers to a collector of the wanted kind
stepWithCollector(p, st, kind, what, addErr) ==
    IF st.collector = Nil
    THEN [pipeline |-> Nil, err |-> "step " \o st.ID \o " has no collector reference"]
    ELSE IF st.collector \notin DOMAIN p.collectors
    THEN [pipeline |-> Nil,
          err |-> "step " \o st.ID \o " has invalid collector reference: collector "
                  \o st.collector \o " not found"]
    ELSE IF p.collectors[st.collector].kind # kind
    THEN [pipeline |-> Nil,
          err |-> "step " \o st.ID \o " has invalid collector reference: collector "
                  \o st.collector \o " is not " \o what \o " collector"]
    ELSE LET r == AddStep(p, st.ID, [kind |-> st.kind, ID |-> st.ID])
         IN  IF r.err # Nil THEN [pipeline |-> Nil, err |-> addErr \o r.err] ELSE r

\* createPipeline: the loop over spec.Steps, from the i-th spec on
RECURSIVE createSteps(_, _, _)
createSteps(p, specs, i) ==
    IF i > Len(specs) THEN [pipeline |-> p, err |-> Nil]
    ELSE LET st == specs[i]
             r == IF st.kind = "terraform_datasource"
                  THEN stepWithCollector(p, st, "terraform", "a terraform",
                                         "failed to add terraform data source step: ")
                  ELSE IF st.kind = "http_get"
                  THEN stepWithCollector(p, st, "http", "an http",
                                         "failed to add http get step: ")
                  ELSE IF st.kind = "static"
                  THEN LET b == buildStaticStep(st)
                           a == AddStep(p, st.ID, [kind |-> st.kind, ID |-> st.ID])
                       IN  IF b # Nil
                           THEN [pipeline |-> Nil,
                                 err |-> "failed to build static step: " \o b]
                           ELSE IF a.err # Nil
                           THEN [pipeline |-> Nil,
                                 err |-> "failed to add static step: " \o a.err]
                           ELSE a
                  ELSE [pipeline |-> Nil, err |-> "unknown step type: " \o st.ID]
         IN  IF r.err # Nil THEN r ELSE createSteps(r.pipeline, specs, i + 1)

\* createPipeline(ctx, logger, job)
createPipeline(j) ==
    IF j.tfclient # Nil
    THEN [pipeline |-> Nil,
          err |-> "failed to create terraform data client: " \o j.tfclient]
    ELSE LET c == createCollectors(NewPipeline, j.collectorSpecs, 1)
         IN  IF c.err # Nil THEN c ELSE createSteps(c.pipeline, j.stepSpecs, 1)

\* NewJSONEncoder(indent)
NewJSONEncoder(indent) == [indent |-> indent]

\* buildEncoder(job.Spec.Output)
buildEncoder(j) ==
    IF ~j.output \/ j.encoding = Nil
    THEN [encoder |-> NewJSONEncoder(NoIndent), err |-> Nil]
    ELSE IF j.encoding = "json"
    THEN [encoder |-> NewJSONEncoder(j.indent), err |-> Nil]
    ELSE [encoder |-> Nil, err |-> "unknown encoding type"]

\* the error of buildInnerSink for archive with the stdout sink
StdoutArchiveError == "stdout sink cannot be used with archive configuration"

\* os.Getwd(): the directory the base path file system is rooted at
rootDir == <<"/", "w", "/", "allowed">>

\* os.MkdirAll(path, 0755) on the machine: /w is a directory that can be written
\* to, /dev/null is a file, so that no directory is made under it
MkdirAll(path) ==
    IF HasPrefix(path, <<"/", "dev", "/", "null", "/">>)
    THEN "mkdir /dev/null: not a directory"
    ELSE Nil

\* sinks.NewFilesystemSinkFromPath(path)
NewFilesystemSinkFromPath(path) ==
    The({IF MkdirAll(cleanPath) # Nil
         THEN [sink |-> Nil,
               err |-> "failed to create output directory " \o Str(cleanPath)
                       \o ": " \o MkdirAll(cleanPath)]
         ELSE [sink |-> "filesystem", err |-> Nil] :
         cleanPath \in {Clean(path)}})

\* buildFilesystemSink(job), for a job that gives no prefix: an empty path is
\* replaced by the working directory
buildFilesystemSink(j) ==
    IF j.path = <<>> /\ j.getwd # Nil
    THEN [sink |-> Nil, err |-> "failed to get working directory: " \o j.getwd]
    ELSE NewFilesystemSinkFromPath(Join(IF j.path = <<>> THEN rootDir ELSE j.path, <<>>))

\* sinks.NewS3Sink(ctx, cfg)
NewS3Sink(j) ==
    IF j.awsConfig # Nil
    THEN [sink |-> Nil, err |-> "failed to load AWS config: " \o j.awsConfig]
    ELSE [sink |-> "s3", err |-> Nil]

\* buildS3Sink(ctx, job)
buildS3Sink(j) == NewS3Sink(j)

\* buildInnerSink accepting the stdout sink under an archive
buildInnerSinkAnySink(j) ==
    IF ~j.output \/ j.sink = Nil \/ j.sink = "stdout"
    THEN [sink |-> "stdout", err |-> Nil]
    ELSE IF j.sink = "filesystem" THEN buildFilesystemSink(j)
    ELSE IF j.sink = "s3" THEN buildS3Sink(j)
    ELSE [sink |-> Nil, err |-> "invalid sink configuration: no sink type specified"]

\* buildInnerSink(ctx, job)
buildInnerSink(j) ==
    IF ~j.output \/ j.sink = Nil \/ j.sink = "stdout"
    THEN IF j.output /\ j.archive
         THEN [sink |-> Nil, err |-> StdoutArchiveError]
         ELSE [sink |-> "stdout", err |-> Nil]
    ELSE IF j.sink = "filesystem" THEN buildFilesystemSink(j)
    ELSE IF j.sink = "s3" THEN buildS3Sink(j)
    ELSE [sink |-> Nil, err |-> "invalid sink configuration: no sink type specified"]

\* buildSink(ctx, job): the inner sink, wrapped by an ArchiveSink under an archive
buildSink(j) ==
    LET inner == buildInnerSink(j)
    IN  IF inner.err # Nil THEN [archiver |-> Nil, err |-> inner.err]
        ELSE IF j.output /\ j.archive
        THEN wrapWithArchiveSink(j)
        ELSE [archiver |-> Nil, err |-> Nil]

\* New(ctx, logger, job): the parts of the Runner, or the error
New(j) ==
    LET p == createPipeline(j)
        e == buildEncoder(j)
        k == buildSink(j)
    IN  IF p.err # Nil
        THEN [pipeline |-> Nil, archiver |-> Nil,
              err |-> "failed to create pipeline: " \o p.err]
        ELSE IF e.err # Nil
        THEN [pipeline |-> Nil, archiver |-> Nil,
              err |-> "failed to build encoder: " \o e.err]
        ELSE IF k.err # Nil
        THEN [pipeline |-> Nil, archiver |-> Nil,
              err |-> "failed to build sink: " \o k.err]
        ELSE [pipeline |-> p.pipeline, archiver |-> k.archiver, err |-> Nil]

(***************************************************************************)
(* Runner.Run                                                              *)
(***************************************************************************)
\* the jobs a Runner can be built for (buildInnerSink rejects archive with stdout);
\* the indent varies for the jobs without an archive and for the archive jobs
\* with the default compression and name
Jobs ==
    {[name |-> "demo", nSteps |-> n, nCols |-> c, archive |-> FALSE,
      compression |-> "", archiveName |-> "", indent |-> d] :
        n \in 0..MaxSteps, c \in 0..MaxCollectors, d \in {NoIndent, TwoSpaces}}
    \cup
    {j \in {[name |-> "demo", nSteps |-> n, nCols |-> c, archive |-> TRUE,
             compression |-> k, archiveName |-> a, indent |-> d] :
               n \in 0..MaxSteps, c \in 0..MaxCollectors,
               k \in {"", CompressionGzip, CompressionZstd, CompressionNone},
               a \in {"", "bundle"}, d \in {NoIndent, TwoSpaces}} :
        j.indent = NoIndent \/ (j.compression = "" /\ j.archiveName = "")}

\* the Runner as New returns it, before Run is called
Init ==
    /\ job \in Jobs
    /\ pc = "start"
    /\ cancelled = FALSE
    /\ toStart = Collectors(job)
    /\ deferred = FALSE
    /\ stepIdx = 1
    /\ inflight = {}
    /\ results = EmptyMap
    /\ toWrite = {}
    /\ toClose = {}
    /\ runErr = Nil
    /\ logged = <<>>
    /\ archiver = IF job.archive THEN wrapWithArchiveSink(job).archiver ELSE Nil
    /\ calls = <<>>
    /\ pipeline = RunnerPipeline(job)
    /\ ret = Nil
    /\ NoTemplates
    /\ NoRegistry
    /\ NoCollector
    /\ NoSys

\* the process signal: the root context is cancelled
Cancel ==
    /\ ~cancelled
    /\ pc \notin {"done", "exit"}
    /\ cancelled' = TRUE
    /\ UNCHANGED <<pc, archiver, calls>>
    /\ UNCHANGED runnerVars
    /\ UNCHANGED extVars

\* Run with the cleanup as trailing code of the success path instead of a defer
ReturnCleanupOnSuccessOnly(err) ==
    /\ runErr' = err
    /\ IF deferred /\ err = Nil
       THEN pc' = "cleanup" /\ toClose' = Collectors(job)
       ELSE pc' = "done" /\ UNCHANGED toClose

\* Runner.Run returns err; the deferred cleanup, when registered, runs first
Return(err) ==
    /\ runErr' = err
    /\ IF deferred
       THEN pc' = "cleanup" /\ toClose' = Collectors(job)
       ELSE pc' = "done" /\ UNCHANGED toClose

\* one iteration of the loop over r.pipeline.Collectors(): collector.Start(ctx)
StartCollector ==
    /\ pc = "start"
    /\ \E id \in toStart, err \in {Nil, "start failed"} :
        /\ calls' = Append(calls, Call("collector", "Start", id, "run", <<>>, err))
        /\ IF err # Nil
           THEN /\ Return("failed to start collector '" \o id \o "' ("
                          \o CollectorName(id) \o "): " \o err)
                /\ UNCHANGED toStart
           ELSE /\ toStart' = toStart \ {id}
                /\ UNCHANGED <<pc, toClose, runErr>>
    /\ UNCHANGED <<job, cancelled, deferred, stepIdx, inflight, results, toWrite,
                   logged, archiver>>
    /\ UNCHANGED extVars

\* Run entering Pipeline.Run while collectors are still to be started
DeferCleanupEarly ==
    /\ pc = "start"
    /\ deferred' = TRUE
    /\ pc' = "pipeline"
    /\ stepIdx' = 1
    /\ results' = EmptyMap
    /\ UNCHANGED <<job, cancelled, toStart, inflight, toWrite, toClose, runErr,
                   logged, archiver, calls>>
    /\ UNCHANGED extVars

\* the defer statement after the start loop, and the entry into Pipeline.Run
DeferCleanup ==
    /\ pc = "start"
    /\ toStart = {}
    /\ deferred' = TRUE
    /\ pc' = "pipeline"
    /\ stepIdx' = 1
    /\ results' = EmptyMap
    /\ UNCHANGED <<job, cancelled, toStart, inflight, toWrite, toClose, runErr,
                   logged, archiver, calls>>
    /\ UNCHANGED extVars

(***************************************************************************)
(* Pipeline.Run, called from Runner.Run                                    *)
(***************************************************************************)
\* ctx.Err() != nil before a step: Pipeline.Run returns nil results and the error
PipelineCancelled ==
    /\ pc = "pipeline"
    /\ stepIdx <= Len(Steps(job))
    /\ CtxErr("run") # Nil
    /\ results' = EmptyMap
    /\ Return("failed to run pipeline: context cancelled while running pipeline at step '"
              \o Steps(job)[stepIdx] \o "': " \o CtxErr("run"))
    /\ UNCHANGED <<job, cancelled, toStart, deferred, stepIdx, inflight, toWrite,
                   logged, archiver, calls>>
    /\ UNCHANGED extVars

\* Pipeline.Run calling Resolve without looking at ctx.Err() first
ResolveBeginUnchecked ==
    /\ pc = "pipeline"
    /\ stepIdx <= Len(Steps(job))
    /\ inflight' = inflight \cup {Steps(job)[stepIdx]}
    /\ calls' = Append(calls, Call("step", "Resolve", Steps(job)[stepIdx], "run", <<>>, Nil))
    /\ pc' = "resolving"
    /\ UNCHANGED <<job, cancelled, toStart, deferred, stepIdx, results, toWrite,
                   toClose, runErr, logged, archiver>>
    /\ UNCHANGED extVars

\* entry.Step.Resolve(ctx) is called
ResolveBegin ==
    /\ pc = "pipeline"
    /\ stepIdx <= Len(Steps(job))
    /\ CtxErr("run") = Nil
    /\ inflight' = inflight \cup {Steps(job)[stepIdx]}
    /\ calls' = Append(calls, Call("step", "Resolve", Steps(job)[stepIdx], "run", <<>>, Nil))
    /\ pc' = "resolving"
    /\ UNCHANGED <<job, cancelled, toStart, deferred, stepIdx, results, toWrite,
                   toClose, runErr, logged, archiver>>
    /\ UNCHANGED extVars

\* Pipeline.Run going on to the next step when Resolve fails
ResolveReturnContinues ==
    /\ pc = "resolving"
    /\ \E err \in {Nil, "resolve failed"}, data \in DataValues(stepIdx) :
        LET id == Steps(job)[stepIdx]
        IN  /\ inflight' = inflight \ {id}
            /\ calls' = Append(calls, Call("step", "Resolved", id, "run", <<>>, err))
            /\ results' = IF err # Nil THEN results
                          ELSE [k \in DOMAIN results \cup {id} |->
                                  IF k = id THEN [id |-> id, data |-> data]
                                  ELSE results[k]]
            /\ stepIdx' = stepIdx + 1
            /\ pc' = "pipeline"
            /\ UNCHANGED <<toClose, runErr>>
    /\ UNCHANGED <<job, cancelled, toStart, deferred, toWrite, logged, archiver>>
    /\ UNCHANGED extVars

\* Runner.Run writing the results gathered so far when Resolve fails
ResolveReturnWritesPartial ==
    /\ pc = "resolving"
    /\ \E err \in {Nil, "resolve failed"}, data \in DataValues(stepIdx) :
        LET id == Steps(job)[stepIdx]
        IN  /\ inflight' = inflight \ {id}
            /\ calls' = Append(calls, Call("step", "Resolved", id, "run", <<>>, err))
            /\ IF err # Nil
               THEN /\ pc' = "write"
                    /\ toWrite' = DOMAIN results
                    /\ UNCHANGED <<results, stepIdx, toClose, runErr>>
               ELSE /\ results' = [k \in DOMAIN results \cup {id} |->
                                     IF k = id THEN [id |-> id, data |-> data]
                                     ELSE results[k]]
                    /\ stepIdx' = stepIdx + 1
                    /\ pc' = "pipeline"
                    /\ UNCHANGED <<toWrite, toClose, runErr>>
    /\ UNCHANGED <<job, cancelled, toStart, deferred, logged, archiver>>
    /\ UNCHANGED extVars

\* entry.Step.Resolve(ctx) returns: an error ends Pipeline.Run, a result is stored
\* under the step's id with its ID overwritten
ResolveReturn ==
    /\ pc = "resolving"
    /\ \E err \in {Nil, "resolve failed"}, data \in DataValues(stepIdx) :
        LET id == Steps(job)[stepIdx]
        IN  /\ inflight' = inflight \ {id}
            /\ calls' = Append(calls, Call("step", "Resolved", id, "run", <<>>, err))
            /\ IF err # Nil
               THEN /\ results' = EmptyMap
                    /\ Return("failed to run pipeline: failed to resolve step '"
                              \o id \o "': " \o err)
                    /\ UNCHANGED stepIdx
               ELSE /\ results' = [k \in DOMAIN results \cup {id} |->
                                     IF k = id THEN [id |-> id, data |-> data]
                                     ELSE results[k]]
                    /\ stepIdx' = stepIdx + 1
                    /\ pc' = "pipeline"
                    /\ UNCHANGED <<toClose, runErr>>
    /\ UNCHANGED <<job, cancelled, toStart, deferred, toWrite, logged, archiver>>
    /\ UNCHANGED extVars

\* the loop over p.steps is over: Pipeline.Run returns the results map and
\* Runner.Run enters WriteResults
PipelineReturn ==
    /\ pc = "pipeline"
    /\ stepIdx > Len(Steps(job))
    /\ pc' = "write"
    /\ toWrite' = DOMAIN results
    /\ UNCHANGED <<job, cancelled, toStart, deferred, stepIdx, inflight, results,
                   toClose, runErr, logged, archiver, calls>>
    /\ UNCHANGED extVars

(***************************************************************************)
(* Runner.WriteResults, called from Runner.Run                             *)
(***************************************************************************)
\* one iteration of the loop over the results map: encode, then sink.Write(ctx, ...)
WriteResult ==
    /\ pc = "write"
    /\ \E stepID \in toWrite, fault \in Faults :
        LET e == EncodeResult(job.indent, results[stepID])
            filename == stepID \o "." \o FileExtension
        IN  IF e.err # Nil
            THEN /\ Return("failed to write results: failed to encode result for step "
                           \o stepID \o ": " \o e.err)
                 /\ UNCHANGED <<toWrite, archiver, calls>>
            ELSE LET w == SinkWrite(job, archiver, "run", filename, e.reader, fault)
                 IN  /\ calls' = calls \o w.log
                     /\ archiver' = w.archiver
                     /\ IF w.err # Nil
                        THEN /\ Return("failed to write results: failed to write result for step "
                                       \o stepID \o ": " \o w.err)
                             /\ UNCHANGED toWrite
                        ELSE /\ toWrite' = toWrite \ {stepID}
                             /\ UNCHANGED <<pc, toClose, runErr>>
    /\ UNCHANGED <<job, cancelled, toStart, deferred, stepIdx, inflight, results, logged>>
    /\ UNCHANGED extVars

\* what WriteResults and Runner.Run return for the error of sink.Close
CloseSinkReturn(err) ==
    Return(IF err # Nil
           THEN "failed to write results: failed to close sink: " \o err
           ELSE Nil)

\* after the loop: sink.Close(ctx) is called.  The sink of a job without an
\* archive returns nil, and Run returns; ArchiveSink.Close starts with
\* archiver.Close() and goes on to the inner sink.
CloseSink ==
    /\ pc = "write"
    /\ toWrite = {}
    /\ IF ~job.archive
       THEN /\ calls' = Append(calls, Call("sink", "Close", "", "run", <<>>, InnerClose))
            /\ CloseSinkReturn(InnerClose)
            /\ UNCHANGED archiver
       ELSE LET r == ArchiverClose(archiver)
            IN  /\ archiver' = r.archiver
                /\ IF r.err # Nil
                   THEN LET err == "failed to finalize archive: " \o r.err
                        IN  /\ calls' = Append(calls,
                                   Call("sink", "Close", "", "run", <<>>, err))
                            /\ CloseSinkReturn(err)
                   ELSE /\ calls' = Append(calls,
                                   Call("sink", "Close", "", "run", <<>>, Nil))
                        /\ pc' = "innerWrite"
                        /\ UNCHANGED <<toClose, runErr>>
    /\ UNCHANGED <<job, cancelled, toStart, deferred, stepIdx, inflight, results,
                   toWrite, logged>>
    /\ UNCHANGED extVars

\* ArchiveSink.Close: s.inner.Write(ctx, s.archiveName, reader), which blocks on I/O
ArchiveSinkInnerWrite ==
    /\ pc = "innerWrite"
    /\ \E fault \in Faults :
        LET log == Append(calls, Call("inner", "Write", ArchiveName(job), "run",
                                      archiver.buf, fault))
        IN  IF fault # Nil
            THEN LET err == "failed to write archive to sink: " \o fault
                 IN  /\ calls' = SinkCloseReturned(log, err)
                     /\ CloseSinkReturn(err)
            ELSE /\ calls' = log
                 /\ pc' = "innerClose"
                 /\ UNCHANGED <<toClose, runErr>>
    /\ UNCHANGED <<job, cancelled, toStart, deferred, stepIdx, inflight, results,
                   toWrite, logged, archiver>>
    /\ UNCHANGED extVars

\* ArchiveSink.Close: s.inner.Close(ctx), and Close, WriteResults and Run return
ArchiveSinkInnerClose ==
    /\ pc = "innerClose"
    /\ LET log == Append(calls, Call("inner", "Close", "", "run", <<>>, InnerClose))
           err == IF InnerClose # Nil
                  THEN "failed to close inner sink: " \o InnerClose
                  ELSE Nil
       IN  /\ calls' = SinkCloseReturned(log, err)
           /\ CloseSinkReturn(err)
    /\ UNCHANGED <<job, cancelled, toStart, deferred, stepIdx, inflight, results,
                   toWrite, logged, archiver>>
    /\ UNCHANGED extVars

(***************************************************************************)
(* The deferred cleanup of Runner.Run                                      *)
(***************************************************************************)
\* the cleanup loop returning at the first Close that fails
CloseCollectorStopsOnError ==
    /\ pc = "cleanup"
    /\ \E id \in toClose, err \in {Nil, "close failed"} :
        /\ calls' = Append(calls, Call("collector", "Close", id, "background", <<>>, err))
        /\ logged' = IF err # Nil
                     THEN Append(logged, [msg |-> "failed to close collector",
                                          collector_id |-> id, error |-> err])
                     ELSE logged
        /\ toClose' = toClose \ {id}
        /\ pc' = IF err # Nil THEN "done" ELSE pc
    /\ UNCHANGED <<job, cancelled, toStart, deferred, stepIdx, inflight, results,
                   toWrite, runErr, archiver>>
    /\ UNCHANGED extVars

\* one iteration of the cleanup loop: collector.Close(context.Background()),
\* an error is logged and the loop goes on
CloseCollector ==
    /\ pc = "cleanup"
    /\ \E id \in toClose, err \in {Nil, "close failed"} :
        /\ calls' = Append(calls, Call("collector", "Close", id, "background", <<>>, err))
        /\ logged' = IF err # Nil
                     THEN Append(logged, [msg |-> "failed to close collector",
                                          collector_id |-> id, error |-> err])
                     ELSE logged
        /\ toClose' = toClose \ {id}
    /\ UNCHANGED <<pc, job, cancelled, toStart, deferred, stepIdx, inflight, results,
                   toWrite, runErr, archiver>>
    /\ UNCHANGED extVars

\* the cleanup loop is over: Runner.Run has returned runErr
Done ==
    /\ pc = "cleanup"
    /\ toClose = {}
    /\ pc' = "done"
    /\ UNCHANGED <<job, cancelled, toStart, deferred, stepIdx, inflight, results,
                   toWrite, toClose, runErr, logged, archiver, calls>>
    /\ UNCHANGED extVars

Next ==
    \/ Cancel
    \/ StartCollector
    \/ DeferCleanup
    \/ PipelineCancelled
    \/ ResolveBegin
    \/ ResolveReturn
    \/ PipelineReturn
    \/ WriteResult
    \/ CloseSink
    \/ ArchiveSinkInnerWrite
    \/ ArchiveSinkInnerClose
    \/ CloseCollector
    \/ Done

Spec == Init /\ [][Next]_vars

(***************************************************************************)
(* The TarArchiver driven directly, as its tests drive it                  *)
(***************************************************************************)
\* a TarArchiver as NewTarArchiver returns it, for each supported compression
InitTar ==
    /\ pc = "tar"
    /\ job \in {j \in Jobs : j.archive /\ j.nSteps = 0 /\ j.nCols = 0 /\ j.archiveName = ""
                         /\ j.indent = NoIndent}
    /\ archiver = NewTarArchiver(job.compression).archiver
    /\ cancelled = FALSE
    /\ toStart = {}
    /\ deferred = FALSE
    /\ stepIdx = 1
    /\ inflight = {}
    /\ results = EmptyMap
    /\ toWrite = {}
    /\ toClose = {}
    /\ runErr = Nil
    /\ logged = <<>>
    /\ calls = <<>>
    /\ pipeline = NewPipeline
    /\ ret = Nil
    /\ NoTemplates
    /\ NoRegistry
    /\ NoCollector
    /\ NoSys

\* archiver.AddFile(ctx, name, data)
TarAddFile ==
    /\ pc = "tar"
    /\ Len(calls) < MaxCalls
    /\ \E name \in Names, data \in {Reader(c) : c \in Contents} \cup {BrokenReader} :
        LET r == AddFile(archiver, CtxErr("run"), name, data)
        IN  /\ archiver' = r.archiver
            /\ calls' = Append(calls, Call("archiver", "AddFile", name, "run",
                                           data.bytes, r.err))
    /\ UNCHANGED <<pc, cancelled>>
    /\ UNCHANGED runnerVars
    /\ UNCHANGED extVars

\* archiver.Close()
TarClose ==
    /\ pc = "tar"
    /\ Len(calls) < MaxCalls
    /\ LET r == ArchiverClose(archiver)
       IN  /\ archiver' = r.archiver
           /\ calls' = Append(calls, Call("archiver", "Close", "", "none",
                                          IF r.err = Nil THEN r.reader ELSE <<>>, r.err))
    /\ UNCHANGED <<pc, cancelled>>
    /\ UNCHANGED runnerVars
    /\ UNCHANGED extVars

NextTar ==
    \/ Cancel
    \/ TarAddFile
    \/ TarClose

SpecTar == InitTar /\ [][NextTar]_vars

(***************************************************************************)
(* A Pipeline driven directly: AddCollector and AddStep with any ids        *)
(***************************************************************************)
\* ids and instances handed to AddCollector / AddStep
IDs == {"a", "b"}
Instances == {"x", "y"}

InitPipeline ==
    /\ pc = "adding"
    /\ job \in {j \in Jobs : ~j.archive /\ j.nSteps = 0 /\ j.nCols = 0 /\ j.indent = NoIndent}
    /\ pipeline = NewPipeline
    /\ ret = Nil
    /\ NoTemplates
    /\ NoRegistry
    /\ NoCollector
    /\ NoSys
    /\ archiver = Nil
    /\ cancelled = FALSE
    /\ toStart = {}
    /\ deferred = FALSE
    /\ stepIdx = 1
    /\ inflight = {}
    /\ results = EmptyMap
    /\ toWrite = {}
    /\ toClose = {}
    /\ runErr = Nil
    /\ logged = <<>>
    /\ calls = <<>>

\* pipeline.AddCollector(id, collector)
PipelineAddCollector ==
    /\ pc = "adding"
    /\ Len(calls) < MaxCalls
    /\ \E id \in IDs, collector \in Instances :
        LET r == AddCollector(pipeline, id, collector)
        IN  /\ pipeline' = r.pipeline
            /\ ret' = r.err
            /\ calls' = Append(calls, Call("pipeline", "AddCollector", id, "none",
                                           collector, r.err))
    /\ UNCHANGED <<pc, cancelled, archiver>>
    /\ UNCHANGED runnerVars
    /\ UNCHANGED templateVars
    /\ UNCHANGED <<registryVars, tfCollector, sysVars>>

\* pipeline.AddStep(id, step)
PipelineAddStep ==
    /\ pc = "adding"
    /\ Len(calls) < MaxCalls
    /\ \E id \in IDs, step \in Instances :
        LET r == AddStep(pipeline, id, step)
        IN  /\ pipeline' = r.pipeline
            /\ ret' = r.err
            /\ calls' = Append(calls, Call("pipeline", "AddStep", id, "none",
                                           step, r.err))
    /\ UNCHANGED <<pc, cancelled, archiver>>
    /\ UNCHANGED runnerVars
    /\ UNCHANGED templateVars
    /\ UNCHANGED <<registryVars, tfCollector, sysVars>>

NextPipeline ==
    \/ PipelineAddCollector
    \/ PipelineAddStep

SpecPipeline == InitPipeline /\ [][NextPipeline]_vars

(***************************************************************************)
(* runner.New followed by Runner.Run                                       *)
(***************************************************************************)
InitNew ==
    /\ pc = "new"
    /\ job \in NewJobs
    /\ pipeline = NewPipeline
    /\ ret = Nil
    /\ NoTemplates
    /\ NoRegistry
    /\ NoCollector
    /\ NoSys
    /\ archiver = Nil
    /\ cancelled = FALSE
    /\ toStart = {}
    /\ deferred = FALSE
    /\ stepIdx = 1
    /\ inflight = {}
    /\ results = EmptyMap
    /\ toWrite = {}
    /\ toClose = {}
    /\ runErr = Nil
    /\ logged = <<>>
    /\ calls = <<>>

\* New(ctx, logger, job) returns: without a Runner on an error, else with the
\* Runner that Run is then called on
NewRunner ==
    /\ pc = "new"
    /\ LET r == New(job)
       IN  /\ ret' = r.err
           /\ IF r.err # Nil
              THEN /\ pc' = "done"
                   /\ UNCHANGED <<pipeline, archiver, toStart>>
              ELSE /\ pc' = "start"
                   /\ pipeline' = r.pipeline
                   /\ archiver' = r.archiver
                   /\ toStart' = DOMAIN r.pipeline.collectors
    /\ UNCHANGED <<job, cancelled, deferred, stepIdx, inflight, results, toWrite,
                   toClose, runErr, logged, calls>>
    /\ UNCHANGED templateVars
    /\ date' = clock
    /\ UNCHANGED <<registryVars, tfCollector, clock, proc, cmd, resp>>

NextNew ==
    \/ NewRunner
    \/ Next

SpecNew == InitNew /\ [][NextNew]_vars

(***************************************************************************)
(* Expand driven directly, as TestExpand drives it                         *)
(***************************************************************************)
\* the characters of the strings handed to Expand
Chars == {"$", "{", "}", "/", "-", "1", "A", "B"}

\* the strings handed to Expand
Strings == UNION {[1..n -> Chars] : n \in 0..(MaxLen + 2)}

\* the variable maps handed to Expand
VariableMaps == {[k \in K |-> <<"v", k>>] : K \in SUBSET {"A", "1", "AB"}}

InitExpand ==
    /\ pc = "expand"
    /\ input \in Strings
    /\ variables \in VariableMaps
    /\ env = EmptyMap
    /\ allowedEnv = <<>>
    /\ ret = Nil
    /\ NoRegistry
    /\ NoCollector
    /\ NoSys
    /\ job \in {j \in Jobs : ~j.archive /\ j.nSteps = 0 /\ j.nCols = 0 /\ j.indent = NoIndent}
    /\ pipeline = NewPipeline
    /\ archiver = Nil
    /\ cancelled = FALSE
    /\ toStart = {}
    /\ deferred = FALSE
    /\ stepIdx = 1
    /\ inflight = {}
    /\ results = EmptyMap
    /\ toWrite = {}
    /\ toClose = {}
    /\ runErr = Nil
    /\ logged = <<>>
    /\ calls = <<>>

\* got, err := Expand(value, variables)
ExpandString ==
    /\ pc = "expand"
    /\ ret' = Expand(input, variables)
    /\ pc' = "done"
    /\ UNCHANGED <<cancelled, archiver, calls, pipeline, templateVars>>
    /\ UNCHANGED runnerVars
    /\ UNCHANGED <<registryVars, tfCollector, sysVars>>

NextExpand == ExpandString

SpecExpand == InitExpand /\ [][NextExpand]_vars

(***************************************************************************)
(* The collect command before New: BuildVariables, then ExpandTemplates    *)
(***************************************************************************)
\* one field of a struct value
Field(name, kind, tag, exported, val) ==
    [name |-> name, kind |-> kind, tag |-> tag, exported |-> exported, val |-> val]

\* template strings: a reference to a built-in variable, and to two
\* environment variables
RefJobName == <<"$", "{", "J", "O", "B", "_", "N", "A", "M", "E", "}", "/">>
RefToken == <<"$", "T", "O", "K", "E", "N">>
RefSecret == <<"$", "{", "S", "E", "C", "R", "E", "T", "}">>

\* the keys a Go map of the documents can have, in the two iteration orders
KeyOrders == {<<"k1", "k2">>, <<"k2", "k1">>}

\* a nested struct: one tagged and one untagged string
Inner(path) ==
    <<Field("Path", "string", "", TRUE, path),
      Field("Note", "string", Nil, TRUE, RefSecret)>>

\* the documents ExpandTemplates is applied to: every kind of field
\* expandStructInPlace tells apart, with and without the template tag
Docs ==
    {[nil |-> FALSE, kind |-> "struct", elem |->
        <<Field("Path", "string", "", TRUE, path),
          Field("Plain", "string", Nil, TRUE, RefJobName),
          Field("Skip", "string", "-", TRUE, RefToken),
          Field("hidden", "string", "", FALSE, RefJobName),
          Field("Token", "*string", "", TRUE, token),
          Field("Name", "*string", Nil, TRUE, [nil |-> FALSE, elem |-> RefJobName]),
          Field("Headers", "map[string]string", Nil, TRUE, headers),
          Field("Counts", "map[string]int", Nil, TRUE, [nil |-> FALSE, m |-> [k \in {"k1"} |-> 1]]),
          Field("Inner", "*struct", Nil, TRUE, inner),
          Field("Args", "[]string", "", TRUE, args),
          Field("Raw", "[]string", Nil, TRUE, [nil |-> FALSE, elems |-> <<RefToken>>]),
          Field("Items", "[]struct", Nil, TRUE, [nil |-> FALSE, elems |-> <<Inner(RefJobName)>>]),
          Field("N", "int", Nil, TRUE, 7)>>] :
        path \in {RefJobName, RefToken, RefSecret},
        token \in {[nil |-> TRUE], [nil |-> FALSE, elem |-> RefToken]},
        headers \in {[nil |-> TRUE],
                     [nil |-> FALSE, m |-> [k \in {"k1", "k2"} |->
                                              IF k = "k1" THEN RefSecret ELSE RefToken]]},
        inner \in {[nil |-> TRUE], [nil |-> FALSE, elem |-> Inner(RefSecret)]},
        args \in {[nil |-> TRUE], [nil |-> FALSE, elems |-> <<RefJobName, RefToken>>]}}

\* the process environments
Envs ==
    {[n \in {"TOKEN", "SECRET"} |-> IF n = "TOKEN" THEN t ELSE x] :
        t \in {Unset, [set |-> TRUE, val |-> <<"t">>]},
        x \in {Unset, [set |-> TRUE, val |-> <<"x">>], [set |-> TRUE, val |-> <<"y">>]}}

\* the values of allowed-env
AllowedEnvs == {<<>>, <<"TOKEN">>, <<"SECRET">>, <<"TOKEN", "SECRET">>}

InitTemplates ==
    /\ pc = "variables"
    /\ input \in Docs
    /\ variables = EmptyMap
    /\ env \in Envs
    /\ allowedEnv \in AllowedEnvs
    /\ ret = [errs |-> <<>>]
    /\ NoRegistry
    /\ NoCollector
    /\ NoSys
    /\ job \in {j \in Jobs : ~j.archive /\ j.nSteps = 0 /\ j.nCols = 0 /\ j.indent = NoIndent}
    /\ pipeline = NewPipeline
    /\ archiver = Nil
    /\ cancelled = FALSE
    /\ toStart = {}
    /\ deferred = FALSE
    /\ stepIdx = 1
    /\ inflight = {}
    /\ results = EmptyMap
    /\ toWrite = {}
    /\ toClose = {}
    /\ runErr = Nil
    /\ logged = <<>>
    /\ calls = <<>>

\* variables, err := runner.BuildVariables(job, allowedEnv)
BuildVars ==
    /\ pc = "variables"
    /\ LET r == BuildVariables(job, allowedEnv, env)
       IN  IF r.errs # <<>>
           THEN /\ ret' = [errs |-> r.errs]
                /\ pc' = "done"
                /\ UNCHANGED variables
           ELSE /\ variables' = r.vars
                /\ pc' = "templates"
                /\ UNCHANGED ret
    /\ UNCHANGED <<input, env, allowedEnv, cancelled, archiver, calls, pipeline>>
    /\ UNCHANGED runnerVars
    /\ UNCHANGED <<registryVars, tfCollector, sysVars>>

\* runner.ExpandTemplates(&job, variables); the log keeps the document as it was
\* and the order in which the maps were iterated
ExpandJob ==
    /\ pc = "templates"
    /\ \E order \in KeyOrders :
        \E r \in {ExpandTemplates(input, variables, order)} :
            /\ input' = r.val
            /\ ret' = [errs |-> r.errs]
            /\ calls' = Append(calls, Call("template", "ExpandTemplates", order, "none",
                                           input, r.errs))
    /\ pc' = "done"
    /\ UNCHANGED <<variables, env, allowedEnv, cancelled, archiver, pipeline>>
    /\ UNCHANGED runnerVars
    /\ UNCHANGED <<registryVars, tfCollector, sysVars>>

NextTemplates ==
    \/ BuildVars
    \/ ExpandJob

SpecTemplates == InitTemplates /\ [][NextTemplates]_vars

(***************************************************************************)
(* The Registry shared by goroutines                                       *)
(***************************************************************************)
InitRegistry ==
    /\ pc = "registry"
    /\ registry = NewRegistry
    /\ mu = NewMutex
    /\ threads = [t \in Threads |-> IdleThread]
    /\ ret = Nil
    /\ NoTemplates
    /\ NoCollector
    /\ NoSys
    /\ job \in {j \in Jobs : ~j.archive /\ j.nSteps = 0 /\ j.nCols = 0 /\ j.indent = NoIndent}
    /\ pipeline = NewPipeline
    /\ archiver = Nil
    /\ cancelled = FALSE
    /\ toStart = {}
    /\ deferred = FALSE
    /\ stepIdx = 1
    /\ inflight = {}
    /\ results = EmptyMap
    /\ toWrite = {}
    /\ toClose = {}
    /\ runErr = Nil
    /\ logged = <<>>
    /\ calls = <<>>

NextRegistry ==
    \/ RegistryCall
    \/ Lock
    \/ RLock
    \/ AccessBegin
    \/ AccessEnd
    \/ Unlock
    \/ RUnlock
    \/ InvokeFactory
    \/ RegistryReturn

SpecRegistry == InitRegistry /\ [][NextRegistry]_vars

(***************************************************************************)
(* A terraform Collector driven directly, as its tests drive it            *)
(***************************************************************************)
\* the configurations NewCollector is called with
TerraformConfigs ==
    [Provider : {<<"hashicorp", "/", "aws">>, <<"aws">>,
                 <<"registry.terraform.io", "/", "hashicorp", "/", "aws">>,
                 <<"a", "/", "b", "/", "c", "/", "d">>, <<"hashicorp", "/">>,
                 <<"invalid provider">>},
     Version  : {<<"v", "5.0">>, <<"5.0">>, <<>>}]

InitCollector ==
    /\ pc = "collector"
    /\ tfCollector = NilCollector
    /\ NoSys
    /\ ret = Nil
    /\ NoTemplates
    /\ NoRegistry
    /\ job \in {j \in Jobs : ~j.archive /\ j.nSteps = 0 /\ j.nCols = 0 /\ j.indent = NoIndent}
    /\ pipeline = NewPipeline
    /\ archiver = Nil
    /\ cancelled = FALSE
    /\ toStart = {}
    /\ deferred = FALSE
    /\ stepIdx = 1
    /\ inflight = {}
    /\ results = EmptyMap
    /\ toWrite = {}
    /\ toClose = {}
    /\ runErr = Nil
    /\ logged = <<>>
    /\ calls = <<>>

\* collector, err := NewCollector(client, cfg)
TerraformNew ==
    /\ pc = "collector"
    /\ tfCollector = NilCollector
    /\ ret = Nil
    /\ \E cfg \in TerraformConfigs :
        LET r == NewCollector(cfg)
        IN  /\ tfCollector' = r.collector
            /\ ret' = r.err
    /\ UNCHANGED <<pc, cancelled, archiver, calls, pipeline, templateVars, registryVars,
                   sysVars>>
    /\ UNCHANGED runnerVars

\* err = collector.Start(ctx)
TerraformStart ==
    /\ pc = "collector"
    /\ ~tfCollector.nil
    /\ Len(calls) < 2 * MaxCalls
    /\ \E createErr \in {Nil, "no such provider"}, configureErr \in {Nil, "bad args"} :
        LET r == Start(tfCollector, "run", createErr, configureErr)
        IN  /\ tfCollector' = r.collector
            /\ ret' = r.err
            /\ calls' = calls \o r.log
                        \o <<Call("collector", "Start", "", "run", <<>>, r.err)>>
    /\ UNCHANGED <<pc, cancelled, archiver, pipeline, templateVars, registryVars, sysVars>>
    /\ UNCHANGED runnerVars

\* err = collector.Close(ctx)
TerraformClose ==
    /\ pc = "collector"
    /\ ~tfCollector.nil
    /\ Len(calls) < 2 * MaxCalls
    /\ \E stopErr \in {Nil, "stop failed"} :
        LET r == CollectorClose(tfCollector, "run", stopErr)
        IN  /\ tfCollector' = r.collector
            /\ ret' = r.err
            /\ calls' = calls \o r.log
                        \o <<Call("collector", "Close", "", "run", <<>>, r.err)>>
    /\ UNCHANGED <<pc, cancelled, archiver, pipeline, templateVars, registryVars, sysVars>>
    /\ UNCHANGED runnerVars

NextCollector ==
    \/ TerraformNew
    \/ TerraformStart
    \/ TerraformClose

SpecCollector == InitCollector /\ [][NextCollector]_vars

(***************************************************************************)
(* An exec step built and resolved, as its tests drive it                  *)
(***************************************************************************)
\* the values of the timeout field
TimeoutStrings ==
    {<<"1", "0", "0", "m", "s">>,
     <<"1", "5", "0", "0", "m", "s">>,
     <<"6", "0", "s">>,
     <<"1", "m", "3", "0", "s">>,
     <<"1", ".", "5", "h">>,
     <<"1", "0", "0", "0", "u", "s">>,
     <<"2", "5", "0", "n", "s">>,
     <<"0", ".", "0", "0", "0", "0", "0", "0", "0", "0", "0", "0", "5", "0", "0", "0", "m">>,
     <<"-", "1", "s">>,
     <<"0">>,
     <<"5">>,
     <<"2", "d">>,
     <<".", "s">>,
     <<>>}

\* the configurations NewExecStep is called with
ExecConfigs ==
    [Program : {<<>>, <<"sh", "-c", "sleep 10">>},
     Timeout : {[nil |-> TRUE]} \cup {[nil |-> FALSE, elem |-> t] : t \in TimeoutStrings},
     Format  : {[nil |-> TRUE], [nil |-> FALSE, elem |-> "json"],
                [nil |-> FALSE, elem |-> "raw"]},
     Env     : {EmptyMap,
                [n \in {"TEST_VAR"} |-> <<"custom_value">>],
                [n \in {"SECRET_VAR"} |-> <<"declared">>]}]

\* the environments of the parent process
ExecEnvs ==
    {[n \in {"PATH", "HOME", "SECRET_VAR", "ALLOWED_VAR"} |->
        IF n = "PATH" THEN [set |-> TRUE, val |-> <<"/bin">>]
        ELSE IF n = "HOME" THEN [set |-> TRUE, val |-> <<"/root">>]
        ELSE IF n = "SECRET_VAR" THEN s
        ELSE a] :
        s \in {Unset, [set |-> TRUE, val |-> <<"topsecret">>]},
        a \in {Unset, [set |-> TRUE, val |-> <<"allowed">>]}}

\* what a command that runs to its end leaves: the error of cmd.Run and the buffers
Exits ==
    {[err |-> Nil, stderr |-> <<>>, stdout |-> <<"{\"a\":1}">>],
     [err |-> Nil, stderr |-> <<"warn", "\n">>, stdout |-> <<"o", "o", "p", "s">>],
     [err |-> Nil, stderr |-> <<>>, stdout |-> <<>>],
     [err |-> "exit status 1", stderr |-> <<"boom", "\n">>, stdout |-> <<>>],
     [err |-> "exit status 1", stderr |-> <<>>, stdout |-> <<"o", "o", "p", "s">>]}

\* what a command killed by os/exec leaves
Kills ==
    {[err |-> "signal: killed", stderr |-> e, stdout |-> <<>>] :
        e \in {<<>>, <<"boom", "\n">>}}

InitExec ==
    /\ pc = "newexec"
    /\ input \in ExecConfigs
    /\ env \in ExecEnvs
    /\ variables = EmptyMap
    /\ allowedEnv = <<>>
    /\ ret = Nil
    /\ NoRegistry
    /\ NoCollector
    /\ NoSys
    /\ job \in {j \in Jobs : ~j.archive /\ j.nSteps = 0 /\ j.nCols = 0 /\ j.indent = NoIndent}
    /\ pipeline = NewPipeline
    /\ archiver = Nil
    /\ cancelled = FALSE
    /\ toStart = {}
    /\ deferred = FALSE
    /\ stepIdx = 1
    /\ inflight = {}
    /\ results = EmptyMap
    /\ toWrite = {}
    /\ toClose = {}
    /\ runErr = Nil
    /\ logged = <<>>
    /\ calls = <<>>

\* step, err := NewExecStep(name, logger, cfg)
ExecNew ==
    /\ pc = "newexec"
    /\ \E r \in {NewExecStep(input)} :
        IF r.err # Nil
        THEN /\ ret' = ZeroResult(r.err)
             /\ pc' = "done"
             /\ UNCHANGED proc
        ELSE /\ proc' = [proc EXCEPT !.timeout = r.timeout, !.format = r.format]
             /\ pc' = "resolve"
             /\ UNCHANGED ret
    /\ UNCHANGED <<cancelled, archiver, calls, pipeline, templateVars, registryVars,
                   tfCollector, clock, date, cmd, resp>>
    /\ UNCHANGED runnerVars

\* step.Resolve(ctx) up to the start of the child: context.WithTimeout, cmd.Env,
\* and cmd.Run, which does not start the command under a context that is done
ExecStart ==
    /\ pc = "resolve"
    /\ proc' = [proc EXCEPT
                  !.env = cmdEnv(env, input.Env),
                  !.expired = ~cancelled /\ NotPositive(proc.timeout),
                  !.state = IF cancelled \/ NotPositive(proc.timeout)
                            THEN "exited" ELSE "running",
                  !.run = IF cancelled THEN NotRun(ContextCanceled)
                          ELSE IF NotPositive(proc.timeout) THEN NotRun(DeadlineExceeded)
                          ELSE NotRun(Nil)]
    /\ pc' = "running"
    /\ calls' = Append(calls, Call("cmd", "Run", Str(input.Program), "run", <<>>, Nil))
    /\ UNCHANGED <<cancelled, archiver, pipeline, ret, templateVars, registryVars,
                   tfCollector, clock, date, cmd, resp>>
    /\ UNCHANGED runnerVars

\* the command runs to its end
ExecExit ==
    /\ pc = "running"
    /\ proc.state = "running"
    /\ \E run \in Exits : proc' = [proc EXCEPT !.state = "exited", !.run = run]
    /\ UNCHANGED <<pc, cancelled, archiver, calls, pipeline, ret, templateVars,
                   registryVars, tfCollector, clock, date, cmd, resp>>
    /\ UNCHANGED runnerVars

\* the timeout elapses before Resolve has returned: the context is done with
\* DeadlineExceeded, and os/exec kills the command if it is still running
ExecDeadline ==
    /\ pc = "running"
    /\ ~proc.expired
    /\ ~cancelled
    /\ \E run \in Kills :
        proc' = IF proc.state = "running"
                THEN [proc EXCEPT !.expired = TRUE, !.state = "killed", !.run = run]
                ELSE [proc EXCEPT !.expired = TRUE]
    /\ UNCHANGED <<pc, cancelled, archiver, calls, pipeline, ret, templateVars,
                   registryVars, tfCollector, clock, date, cmd, resp>>
    /\ UNCHANGED runnerVars

\* the run's context is cancelled before Resolve has returned: os/exec kills the
\* command if it is still running
ExecCancel ==
    /\ pc \in {"resolve", "running"}
    /\ ~cancelled
    /\ cancelled' = TRUE
    /\ \E run \in Kills :
        proc' = IF proc.state = "running"
                THEN [proc EXCEPT !.state = "killed", !.run = run]
                ELSE proc
    /\ UNCHANGED <<pc, archiver, calls, pipeline, ret, templateVars, registryVars,
                   tfCollector, clock, date, cmd, resp>>
    /\ UNCHANGED runnerVars

\* cmd.Run has returned and Resolve returns
ExecReturn ==
    /\ pc = "running"
    /\ proc.state \in {"exited", "killed"}
    /\ ret' = execResult(proc.run, StepCtxErr, proc.timeout, proc.format, input.Program)
    /\ pc' = "done"
    /\ UNCHANGED <<cancelled, archiver, calls, pipeline, templateVars, registryVars,
                   tfCollector, sysVars>>
    /\ UNCHANGED runnerVars

NextExec ==
    \/ ExecNew
    \/ ExecStart
    \/ ExecExit
    \/ ExecDeadline
    \/ ExecCancel
    \/ ExecReturn

SpecExec == InitExec /\ [][NextExec]_vars

(***************************************************************************)
(* The static step: a value, or a file read under a base directory         *)
(*                                                                         *)
(* A string is the sequence of its tokens; a path is such a string, with   *)
(* "/" as the separator token and "." and ".." as tokens of their own.     *)
(***************************************************************************)
\* strings.HasSuffix(s, suffix)
HasSuffix(s, suffix) ==
    Len(s) >= Len(suffix) /\ SubSeq(s, Len(s) - Len(suffix) + 1, Len(s)) = suffix

\* filepath.Base(path), for a path that does not end with a separator
Base(path) == The({segs[Len(segs)] : segs \in {Segments(path)}})

\* the regular files of the machine, by their real path
Files ==
    (<<"/", "w", "/", "allowed", "/", "safe.txt">> :> <<"safe">>)
    @@ (<<"/", "w", "/", "allowed", "/", "data", ".json">> :> <<"{\"a\":1}">>)
    @@ (<<"/", "w", "/", "secret.txt">> :> <<"secret">>)
    @@ (<<"/", "w", "/", "allowed", "2", "/", "secret.txt">> :> <<"secret2">>)

\* the symbolic links of the machine
Symlinks ==
    (<<"/", "w", "/", "allowed", "/", "link.txt">> :> <<"/", "w", "/", "secret.txt">>)

\* BasePathFs.RealPath(name): the path is joined to the base and cleaned, and
\* is refused unless the base is a prefix of it as a string
RealPath(bpath, name) ==
    The({IF ~HasPrefix(path, Clean(bpath))
         THEN [path |-> name, err |-> "file does not exist"]
         ELSE [path |-> path, err |-> Nil] :
         path \in {Clean(Join(Clean(bpath), name))}})

\* OsFs.Open(path) and the read of the whole file: the file a path names is
\* found through the symbolic link at the path, if there is one
OsReadFile(path) ==
    The({IF real \in DOMAIN Files
         THEN [file |-> real, data |-> Files[real], err |-> Nil]
         ELSE [file |-> <<>>, data |-> <<>>,
               err |-> "open " \o Str(path) \o ": no such file or directory"] :
         real \in {IF path \in DOMAIN Symlinks THEN Symlinks[path] ELSE path}})

\* afero.ReadFile(fs, name) on the BasePathFs: RealPath, then the file system under it
ReadFile(bpath, name) ==
    The({IF r.err # Nil
         THEN [file |-> <<>>, data |-> <<>>,
               err |-> "open " \o Str(name) \o ": " \o r.err]
         ELSE OsReadFile(r.path) :
         r \in {RealPath(bpath, name)}})

\* the error of json.Unmarshal for a text that is not JSON
SyntaxError == "invalid character 's' looking for beginning of value"

\* Resolve of the step newStaticFileStep returns: the result, and the file read
staticFileResult(cfg, bpath) ==
    The({IF f.err # Nil
         THEN [data |-> <<>>, file |-> <<>>,
               err |-> "failed to read filepath " \o Str(cfg.Filepath.elem) \o ": " \o f.err]
         ELSE IF HasSuffix(cfg.Filepath.elem, <<".json">>)
                 /\ (cfg.ParseAs.nil \/ cfg.ParseAs.elem = "json")
         THEN IF IsJSON(f.data)
              THEN [data |-> f.data, file |-> f.file, err |-> Nil]
              ELSE [data |-> <<>>, file |-> f.file,
                    err |-> "failed to parse as json " \o Str(cfg.Filepath.elem)
                            \o ": " \o SyntaxError]
         ELSE [data |-> <<Str(Base(cfg.Filepath.elem)), Str(f.data)>>,
               file |-> f.file, err |-> Nil] :
         f \in {ReadFile(bpath, cfg.Filepath.elem)}})

\* Resolve of the step newStaticValueStep returns
staticValueResult(value, parseAs) ==
    IF ~parseAs.nil /\ parseAs.elem = "json"
    THEN IF IsJSON(value)
         THEN [data |-> value, file |-> <<>>, err |-> Nil]
         ELSE [data |-> <<>>, file |-> <<>>,
               err |-> "failed to parse as json " \o Str(value) \o ": " \o SyntaxError]
    ELSE [data |-> <<"value", Str(value)>>, file |-> <<>>, err |-> Nil]

\* the file paths static steps are configured with
StaticPaths ==
    {<<"safe.txt">>,
     <<"data", ".json">>,
     <<".", "/", "safe.txt">>,
     <<"missing.txt">>,
     <<"link.txt">>,
     <<"..", "/", "secret.txt">>,
     <<"..", "/", "allowed", "/", "safe.txt">>,
     <<"..", "/", "allowed", "2", "/", "secret.txt">>,
     <<"..", "/", "..", "/", "..", "/", "w", "/", "secret.txt">>,
     <<"/", "safe.txt">>}

\* the configurations NewStaticStep is called with
StaticConfigs ==
    [Filepath : {[nil |-> TRUE]} \cup {[nil |-> FALSE, elem |-> p] : p \in StaticPaths},
     Value    : {[nil |-> TRUE], [nil |-> FALSE, elem |-> <<"{\"a\":1}">>],
                 [nil |-> FALSE, elem |-> <<"safe">>]},
     ParseAs  : {[nil |-> TRUE], [nil |-> FALSE, elem |-> "json"],
                 [nil |-> FALSE, elem |-> "raw"]}]

\* the Runner, its sink and its archiver at rest, while another part is driven
RunnerIdle ==
    /\ job \in {j \in Jobs : ~j.archive /\ j.nSteps = 0 /\ j.nCols = 0 /\ j.indent = NoIndent}
    /\ pipeline = NewPipeline
    /\ archiver = Nil
    /\ cancelled = FALSE
    /\ toStart = {}
    /\ deferred = FALSE
    /\ stepIdx = 1
    /\ inflight = {}
    /\ results = EmptyMap
    /\ toWrite = {}
    /\ toClose = {}
    /\ runErr = Nil
    /\ logged = <<>>

InitStatic ==
    /\ pc = "newstatic"
    /\ input \in StaticConfigs
    /\ variables = EmptyMap
    /\ env = EmptyMap
    /\ allowedEnv = <<>>
    /\ ret = Nil
    /\ calls = <<>>
    /\ RunnerIdle
    /\ NoRegistry
    /\ NoCollector
    /\ NoSys

\* step, err := NewStaticStep(name, cfg)
StaticNew ==
    /\ pc = "newstatic"
    /\ \E err \in {NewStaticStep(input)} :
        IF err # Nil
        THEN /\ ret' = [data |-> <<>>, err |-> err]
             /\ pc' = "done"
        ELSE /\ pc' = "resolve"
             /\ UNCHANGED ret
    /\ UNCHANGED <<cancelled, archiver, calls, pipeline, templateVars, registryVars,
                   tfCollector, sysVars>>
    /\ UNCHANGED runnerVars

\* step.Resolve(ctx) of a file step; the file it read is logged
StaticFileResolve ==
    /\ pc = "resolve"
    /\ ~input.Filepath.nil
    /\ \E r \in {staticFileResult(input, rootDir)} :
        /\ ret' = [data |-> r.data, err |-> r.err]
        /\ calls' = IF r.file = <<>> THEN calls
                    ELSE Append(calls, Call("fs", "ReadFile", Str(r.file), "run",
                                            Segments(r.file), Nil))
    /\ pc' = "done"
    /\ UNCHANGED <<cancelled, archiver, pipeline, templateVars, registryVars,
                   tfCollector, sysVars>>
    /\ UNCHANGED runnerVars

\* step.Resolve(ctx) of a value step
StaticValueResolve ==
    /\ pc = "resolve"
    /\ input.Filepath.nil
    /\ \E r \in {staticValueResult(input.Value.elem, input.ParseAs)} :
        ret' = [data |-> r.data, err |-> r.err]
    /\ pc' = "done"
    /\ UNCHANGED <<cancelled, archiver, calls, pipeline, templateVars, registryVars,
                   tfCollector, sysVars>>
    /\ UNCHANGED runnerVars

NextStatic ==
    \/ StaticNew
    \/ StaticFileResolve
    \/ StaticValueResolve

SpecStatic == InitStatic /\ [][NextStatic]_vars

(***************************************************************************)
(* runner.ResolveCollectorSpec and runner.ResolveStepSpec                  *)
(***************************************************************************)
\* a nil pointer, and a pointer to a value
NilPtr == [nil |-> TRUE]

PtrTo(v) == [nil |-> FALSE, elem |-> v]

\* ResolvedSpec{} with the error
NoResolvedSpec(err) == [Kind |-> "", Spec |-> NilPtr, err |-> err]

\* ResolveCollectorSpec(c): the first variant that is set, in the order of the switch
ResolveCollectorSpec(c) ==
    IF ~c.Terraform.nil THEN [Kind |-> "terraform", Spec |-> c.Terraform, err |-> Nil]
    ELSE IF ~c.HTTP.nil THEN [Kind |-> "http", Spec |-> c.HTTP, err |-> Nil]
    ELSE NoResolvedSpec("invalid collector spec: " \o c.ID)

\* ResolveStepSpec(s): the first variant that is set, in the order of the switch
ResolveStepSpec(s) ==
    IF ~s.TerraformDataSource.nil
    THEN [Kind |-> "terraform_datasource", Spec |-> s.TerraformDataSource, err |-> Nil]
    ELSE IF ~s.HTTPGet.nil THEN [Kind |-> "http_get", Spec |-> s.HTTPGet, err |-> Nil]
    ELSE IF ~s.Static.nil THEN [Kind |-> "static", Spec |-> s.Static, err |-> Nil]
    ELSE IF ~s.Exec.nil THEN [Kind |-> "exec", Spec |-> s.Exec, err |-> Nil]
    ELSE NoResolvedSpec("invalid step spec: " \o s.ID)

\* the ids of the specs resolved
SpecIDs == {"a", "b", "c"}

\* the v1.Collector values resolved: every choice of variants
CollectorSpecs ==
    [ID : SpecIDs,
     Terraform : {NilPtr, PtrTo("TerraformCollector")},
     HTTP : {NilPtr, PtrTo("HTTPCollector")}]

\* the v1.Step values resolved: every choice of variants
StepSpecs ==
    [ID : SpecIDs,
     TerraformDataSource : {NilPtr, PtrTo("TerraformDataSourceStep")},
     HTTPGet : {NilPtr, PtrTo("HTTPGetStep")},
     Static : {NilPtr, PtrTo("StaticStep")},
     Exec : {NilPtr, PtrTo("ExecStep")}]

InitResolveSpec ==
    /\ pc = "resolvespec"
    /\ input \in [of : {"collector"}, spec : CollectorSpecs]
              \cup [of : {"step"}, spec : StepSpecs]
    /\ variables = EmptyMap
    /\ env = EmptyMap
    /\ allowedEnv = <<>>
    /\ ret = Nil
    /\ calls = <<>>
    /\ RunnerIdle
    /\ NoRegistry
    /\ NoCollector
    /\ NoSys

\* resolved, err := ResolveCollectorSpec(c)
ResolveCollector ==
    /\ pc = "resolvespec"
    /\ input.of = "collector"
    /\ ret' = ResolveCollectorSpec(input.spec)
    /\ pc' = "done"
    /\ UNCHANGED <<cancelled, archiver, calls, pipeline, templateVars, registryVars,
                   tfCollector, sysVars>>
    /\ UNCHANGED runnerVars

\* resolved, err := ResolveStepSpec(s)
ResolveStep ==
    /\ pc = "resolvespec"
    /\ input.of = "step"
    /\ ret' = ResolveStepSpec(input.spec)
    /\ pc' = "done"
    /\ UNCHANGED <<cancelled, archiver, calls, pipeline, templateVars, registryVars,
                   tfCollector, sysVars>>
    /\ UNCHANGED runnerVars

NextResolveSpec ==
    \/ ResolveCollector
    \/ ResolveStep

SpecResolveSpec == InitResolveSpec /\ [][NextResolveSpec]_vars

(***************************************************************************)
(* The collect command: the Action of the command line                     *)
(*                                                                         *)
(* The job the file denotes is held twice, as the rest of the module holds *)
(* it: job is what BuildVariables and New read, input what ExpandTemplates *)
(* expands in place.                                                       *)
(***************************************************************************)
\* os.Getenv(name): the value, empty when the variable is not set
Getenv(environ, name) ==
    IF name \in DOMAIN environ /\ environ[name].set THEN environ[name].val ELSE <<>>

\* isInteractiveEnvironment(): never with CI non-empty, else whether stdin is a terminal
isInteractiveEnvironment(environ, tty) ==
    IF Getenv(environ, "CI") # <<>> THEN FALSE ELSE tty

\* withInteractive(ctx, interactive): the value of the context under
\* interactiveCtxKey
withInteractive(interactive) == [ok |-> TRUE, interactive |-> interactive]

\* a context with no value under interactiveCtxKey
NoInteractive == [ok |-> FALSE, interactive |-> FALSE]

\* isInteractive(ctx)
isInteractive(ctxValue) == IF ~ctxValue.ok THEN FALSE ELSE ctxValue.interactive

\* reader.ReadString('\n'): the input up to and with the first newline, or all
\* of it and io.EOF when there is none
ReadString(stdin) ==
    IF \E i \in 1..Len(stdin) : stdin[i] = "\n"
    THEN [response |-> SubSeq(stdin, 1, CHOOSE i \in 1..Len(stdin) :
                                 stdin[i] = "\n" /\ \A j \in 1..(i - 1) : stdin[j] # "\n"),
          err |-> Nil]
    ELSE [response |-> stdin, err |-> "EOF"]

\* the job file names given on the command line: a name is the sequence of its
\* tokens, the ":" and "/" of a URL being tokens of their own
JobFilenames ==
    {<<>>,
     <<"job.yaml">>,
     <<"http", ":", "/", "/", "host", "/", "job.yaml">>,
     <<"https", ":", "/", "/", "host", "/", "job.yaml">>,
     <<"https", ":", "/", "/", "host", "/", "%zz">>,
     <<"ftp", ":", "/", "/", "host", "/", "job.yaml">>}

\* what client.Do returns for the request of a remote job file: its error, or
\* the response with its status, the body not read yet
Responses ==
    {[err |-> "dial tcp: connection refused", StatusCode |-> 0, body |-> Nil]}
    \cup {[err |-> Nil, StatusCode |-> c, body |-> Nil] : c \in {101, 200, 299, 300, 404}}

\* client.Do(req) under a context that is cancelled: the error of the context
CancelledResponse == [err |-> ContextCanceled, StatusCode |-> 0, body |-> Nil]

\* what io.ReadAll(resp.Body) returns while the context is not cancelled: the
\* error, Nil for none
ReadAllErrs == {Nil, "unexpected EOF"}

\* the job files: what yaml.Unmarshal answers for the data, and what the
\* struct validation answers for the job it was read into; Nil for no error
JobFiles ==
    {[unmarshal |-> Nil, validate |-> Nil],
     [unmarshal |-> "[1:1] string was used where mapping is expected", validate |-> Nil],
     [unmarshal |-> Nil,
      validate |-> "Key: 'CollectJob.Kind' Error:Field validation for 'Kind' failed on the 'required' tag"]}

\* ParseCollectJob(data): the error it returns
ParseCollectJob(data) ==
    IF data.unmarshal # Nil THEN "failed to unmarshal job data: " \o data.unmarshal
    ELSE IF data.validate # Nil THEN "failed to validate job: " \o data.validate
    ELSE Nil

\* what os.ReadFile answers for a local job file: the error, Nil for none
ReadFileErrs == {Nil, "no such file or directory"}

\* the least and the first status past the statuses readJobFile accepts
StatusOK == 200
StatusMultipleChoices == 300

\* http.NewRequestWithContext(ctx, method, url, nil) under a context that is
\* not nil and with a valid method: the error of parsing url
httpNewRequest(u) == urlParse(u).err

\* readJobFile(ctx, jobFilename): whether the file is remote, and the error;
\* r is the resp client.Do returns, with the error of reading the body, and
\* fileErr what os.ReadFile answers
readJobFile(jobFilename, r, fileErr) ==
    LET name == Str(jobFilename)
        failed(err) == [isRemote |-> FALSE, err |-> err]
    IN  IF \/ HasPrefix(jobFilename, <<"http", ":", "/", "/">>)
           \/ HasPrefix(jobFilename, <<"https", ":", "/", "/">>)
        THEN IF urlParse(jobFilename).err # Nil
             THEN failed("failed to parse URL '" \o name \o "': "
                         \o urlParse(jobFilename).err)
             ELSE IF httpNewRequest(jobFilename) # Nil
             THEN failed("failed to create request to remote job file '" \o name
                         \o "': " \o httpNewRequest(jobFilename))
             ELSE IF r.err # Nil
             THEN failed("failed to execute request to remote job file '" \o name
                         \o "': Get \"" \o name \o "\": " \o r.err)
             ELSE IF r.StatusCode < StatusOK \/ r.StatusCode >= StatusMultipleChoices
             THEN failed("request to remote job file '" \o name
                         \o "' failed with status " \o ToString(r.StatusCode))
             ELSE IF r.body # Nil
             THEN failed("failed to read response body from remote job file '" \o name
                         \o "': " \o r.body)
             ELSE [isRemote |-> TRUE, err |-> Nil]
        ELSE IF fileErr # Nil
        THEN failed("failed to read local job file '" \o name \o "': open " \o name
                    \o ": " \o fileErr)
        ELSE [isRemote |-> FALSE, err |-> Nil]

\* the check of a remote job file, with the answer not looked at
trustCheckAnyAnswer(isRemote, trustRemote, ctxValue, stdin) ==
    IF ~(isRemote /\ ~trustRemote) THEN Nil
    ELSE IF ~isInteractive(ctxValue)
    THEN "remote job file requires --trust-remote flag in non-interactive mode"
    ELSE The({IF r.err # Nil THEN "failed to read confirmation: " \o r.err
              ELSE Nil :
              r \in {ReadString(stdin)}})

\* the check of a remote job file in the Action: the error it returns
trustCheck(isRemote, trustRemote, ctxValue, stdin) ==
    IF ~(isRemote /\ ~trustRemote) THEN Nil
    ELSE IF ~isInteractive(ctxValue)
    THEN "remote job file requires --trust-remote flag in non-interactive mode"
    ELSE The({IF r.err # Nil THEN "failed to read confirmation: " \o r.err
              ELSE IF TrimSpace(r.response) # <<"y">> THEN "remote job file is not trusted"
              ELSE Nil :
              r \in {ReadString(stdin)}})

\* the names readJobFile fetches from a server
RemoteNames ==
    {<<"http", ":", "/", "/", "host", "/", "job.yaml">>,
     <<"https", ":", "/", "/", "host", "/", "job.yaml">>}

\* what is typed on stdin
Stdins ==
    {<<"y", "\n">>, <<" ", "y", " ", "\n">>, <<"n", "\n">>, <<"Y", "\n">>,
     <<"\n">>, <<"y">>, <<>>, <<"y", "e", "s", "\n">>, <<"n", "\n", "y", "\n">>}

\* errors.Join(errs...).Error(): the messages, one per line
RECURSIVE errorsJoin(_)
errorsJoin(errs) ==
    IF Len(errs) = 1 THEN errs[1]
    ELSE errs[1] \o "\n" \o errorsJoin(Tail(errs))

\* the names of os.Environ(), the entries in the order of environ's names
RECURSIVE EnvironNames(_, _)
EnvironNames(environ, names) ==
    IF names = <<>> THEN <<>>
    ELSE IF Head(names) \in DOMAIN environ /\ environ[Head(names)].set
    THEN <<Head(names)>> \o EnvironNames(environ, Tail(names))
    ELSE EnvironNames(environ, Tail(names))

\* the commands run: arguments, flags, the job file, the context's value,
\* whether stdin is a terminal and what is typed on it; the last two are told
\* apart only for a remote job file without --trust-remote, and the flags of
\* the environment only for a job file that can be parsed
Commands ==
    {c \in [job : JobFilenames,
            passEnv : {<<>>, <<"TOKEN">>},
            passAllEnv : BOOLEAN,
            trustRemote : BOOLEAN,
            data : JobFiles,
            tty : BOOLEAN,
            stdin : Stdins,
            ctxValue : {NoInteractive}] :
        /\ c.stdin \in {<<>>, <<"y", "\n">>, <<"n", "\n">>}
        /\ (c.stdin = <<>> /\ ~c.tty) \/ (~c.trustRemote /\ c.job \in RemoteNames)
        /\ ParseCollectJob(c.data) = Nil \/ (c.passEnv = <<>> /\ ~c.passAllEnv)}

\* the process environments of the command
CollectEnvs ==
    {[n \in {"CI", "TOKEN"} |-> IF n = "CI" THEN c ELSE t] :
        c \in {Unset, [set |-> TRUE, val |-> <<>>], [set |-> TRUE, val |-> <<"true">>]},
        t \in {Unset, [set |-> TRUE, val |-> <<"t">>]}}

\* the documents of the job files: one that refers to the job's name only, and
\* one that refers to TOKEN
CollectDocs ==
    {d \in Docs : /\ d.elem[1].val \in {RefJobName, RefToken}
                  /\ \A i \in {5, 7, 9, 10} : d.elem[i].val.nil}

\* the jobs of the job files: one New accepts, and one it refuses
CollectJobs ==
    {j \in NewJobs : /\ j.collectorSpecs = <<>>
                     /\ ~j.archive /\ ~j.output
                     /\ j.tfclient = Nil
                     /\ j.stepSpecs \in {<<StaticValueSpec(StepID(1))>>,
                                         <<[ID |-> StepID(1), kind |-> "", collector |-> Nil]>>}}
    \cup
    {j \in NewJobs : /\ j.collectorSpecs = <<HTTPSpec(CollectorID(1), <<"http", ":", "/", "/", "api">>)>>
                     /\ j.stepSpecs = <<[ID |-> StepID(1), kind |-> "http_get",
                                         collector |-> CollectorID(1)]>>
                     /\ j.archive /\ j.compression = ""
                     /\ j.sink = "filesystem" /\ j.path = <<"/", "w", "/", "out">>
                     /\ j.encoding = Nil
                     /\ j.tfclient = Nil}

\* the job with a collector and an archive is run with the plain command line:
\* a local job file, no flag, and an environment without CI
PlainCommand ==
    \/ job.collectorSpecs = <<>>
    \/ /\ cmd.job = <<"job.yaml">>
       /\ cmd.passEnv = <<>> /\ ~cmd.passAllEnv /\ ~cmd.trustRemote
       /\ ~env["CI"].set /\ ~env["TOKEN"].set
       /\ input.elem[1].val = RefJobName

InitCollect ==
    /\ pc = "collect"
    /\ cmd \in Commands
    /\ resp = NoResponse
    /\ env \in CollectEnvs
    /\ allowedEnv = <<>>
    /\ input \in CollectDocs
    /\ job \in CollectJobs
    /\ PlainCommand
    /\ variables = EmptyMap
    /\ ret = Nil
    /\ clock = 0
    /\ date = 0
    /\ proc = NoProcess
    /\ pipeline = NewPipeline
    /\ archiver = Nil
    /\ cancelled = FALSE
    /\ toStart = {}
    /\ deferred = FALSE
    /\ stepIdx = 1
    /\ inflight = {}
    /\ results = EmptyMap
    /\ toWrite = {}
    /\ toClose = {}
    /\ runErr = Nil
    /\ logged = <<>>
    /\ calls = <<>>
    /\ NoRegistry
    /\ NoCollector

\* what the steps of the Action leave alone
collectFrame == <<cancelled, env, registryVars, tfCollector,
                  clock, proc, job, deferred, stepIdx, inflight, results,
                  toWrite, toClose, runErr, logged>>

\* the context the Action is called with: the one main makes, to which the
\* Before of the command adds the logger.  Neither stores a value under
\* interactiveCtxKey: withInteractive and isInteractiveEnvironment have no
\* caller.
CollectContext ==
    /\ pc = "collect"
    /\ cmd' = [cmd EXCEPT !.ctxValue = NoInteractive]
    /\ pc' = "read"
    /\ UNCHANGED <<calls, resp, ret, input, variables, pipeline, archiver, toStart, date>>
    /\ UNCHANGED <<allowedEnv, collectFrame>>

\* readJobFile has returned f: the Action returns its error wrapped, or checks
\* a remote job file and goes on to the parse
ReadReturn(f) ==
    IF f.err # Nil
    THEN /\ ret' = "failed to read job file '" \o Str(cmd.job) \o "': " \o f.err
         /\ pc' = "exit"
    ELSE \E err \in {trustCheck(f.isRemote, cmd.trustRemote, cmd.ctxValue, cmd.stdin)} :
         IF err # Nil
         THEN /\ ret' = err
              /\ pc' = "exit"
         ELSE /\ pc' = "parse"
              /\ UNCHANGED ret

\* the Action up to the first wait of readJobFile: the argument; for a URL the
\* parse, the request and the call of client.Do, which returns at once under a
\* context that is cancelled already; for a local file os.ReadFile and the rest
CollectRead ==
    /\ pc = "read"
    /\ IF cmd.job = <<>>
       THEN /\ ret' = "no job file provided"
            /\ pc' = "exit"
       ELSE IF \/ HasPrefix(cmd.job, <<"http", ":", "/", "/">>)
               \/ HasPrefix(cmd.job, <<"https", ":", "/", "/">>)
       THEN IF urlParse(cmd.job).err # Nil \/ httpNewRequest(cmd.job) # Nil \/ cancelled
            THEN \E f \in {readJobFile(cmd.job, CancelledResponse, Nil)} : ReadReturn(f)
            ELSE /\ pc' = "do"
                 /\ UNCHANGED ret
       ELSE \E fileErr \in ReadFileErrs :
            \E f \in {readJobFile(cmd.job, NoResponse, fileErr)} : ReadReturn(f)
    /\ UNCHANGED <<calls, cmd, resp, input, variables, pipeline, archiver, toStart, date>>
    /\ UNCHANGED <<allowedEnv, collectFrame>>

\* resp, err := client.Do(req) returns after the wait for the server: an error
\* or a response, whose status is checked; a context cancelled during the wait
\* may win over the response
CollectDo ==
    /\ pc = "do"
    /\ \E r \in Responses \cup (IF cancelled THEN {CancelledResponse} ELSE {}) :
        IF r.err # Nil \/ r.StatusCode < StatusOK \/ r.StatusCode >= StatusMultipleChoices
        THEN /\ \E f \in {readJobFile(cmd.job, r, Nil)} : ReadReturn(f)
             /\ UNCHANGED resp
        ELSE /\ resp' = r
             /\ pc' = "body"
             /\ UNCHANGED ret
    /\ UNCHANGED <<calls, cmd, input, variables, pipeline, archiver, toStart, date>>
    /\ UNCHANGED <<allowedEnv, collectFrame>>

\* body, err := io.ReadAll(resp.Body) returns after the wait for the body, and
\* readJobFile with it: a context cancelled by then may end the read
CollectBody ==
    /\ pc = "body"
    /\ \E b \in ReadAllErrs \cup (IF cancelled THEN {ContextCanceled} ELSE {}) :
        \E f \in {readJobFile(cmd.job, [resp EXCEPT !.body = b], Nil)} : ReadReturn(f)
    /\ UNCHANGED <<calls, cmd, resp, input, variables, pipeline, archiver, toStart, date>>
    /\ UNCHANGED <<allowedEnv, collectFrame>>

\* job, err := runner.ParseCollectJob(jobFile)
CollectParse ==
    /\ pc = "parse"
    /\ calls' = Append(calls, Call("runner", "ParseCollectJob", Str(cmd.job), "none", <<>>, Nil))
    /\ \E err \in {ParseCollectJob(cmd.data)} :
        IF err # Nil
        THEN /\ ret' = "failed to parse job: " \o err
             /\ pc' = "exit"
        ELSE /\ pc' = "build"
             /\ UNCHANGED ret
    /\ UNCHANGED <<cmd, resp, input, variables, pipeline, archiver, toStart, date>>
    /\ UNCHANGED <<allowedEnv, collectFrame>>

\* allowedEnv from the flags pass-all-env and pass-env, and
\* variables, err := runner.BuildVariables(job, allowedEnv)
CollectBuildVariables ==
    /\ pc = "build"
    /\ calls' = Append(calls, Call("runner", "BuildVariables", Str(cmd.job), "none", <<>>, Nil))
    /\ allowedEnv' = IF cmd.passAllEnv THEN EnvironNames(env, <<"CI", "TOKEN">>)
                     ELSE cmd.passEnv
    /\ \E r \in {BuildVariables(job, allowedEnv', env)} :
        IF r.errs # <<>>
        THEN /\ ret' = "failed to build variables: " \o errorsJoin(r.errs)
             /\ pc' = "exit"
             /\ UNCHANGED variables
        ELSE /\ variables' = r.vars
             /\ pc' = "expand"
             /\ UNCHANGED ret
    /\ UNCHANGED <<cmd, resp, input, pipeline, archiver, toStart, date>>
    /\ UNCHANGED collectFrame

\* runner.ExpandTemplates(&job, variables)
CollectExpand ==
    /\ pc = "expand"
    /\ \E order \in KeyOrders :
        \E r \in {ExpandTemplates(input, variables, order)} :
            /\ input' = r.val
            /\ calls' = Append(calls, Call("runner", "ExpandTemplates", Str(cmd.job), "none",
                                           <<>>, Nil))
            /\ IF r.errs # <<>>
               THEN /\ ret' = "failed to expand templates: " \o errorsJoin(r.errs)
                    /\ pc' = "exit"
               ELSE /\ pc' = "new"
                    /\ UNCHANGED ret
    /\ UNCHANGED <<cmd, resp, variables, pipeline, archiver, toStart, date>>
    /\ UNCHANGED <<allowedEnv, collectFrame>>

\* runner.New(ctx, logger, job, allowedEnv), the New the Action calls: the
\* Runner is built from the job as New(ctx, logger, job) builds it, and the
\* names of allowedEnv are handed on with it
NewWithAllowedEnv(j, allowed) ==
    The({[pipeline |-> r.pipeline, archiver |-> r.archiver, allowedEnv |-> allowed,
          err |-> r.err] :
         r \in {New(j)}})

\* r, err := runner.New(ctx, logger, job, allowedEnv): NewPipeline takes the
\* pipeline's date
CollectNew ==
    /\ pc = "new"
    /\ calls' = Append(calls, Call("runner", "New", Str(cmd.job), "run", allowedEnv, Nil))
    /\ date' = clock
    /\ \E r \in {NewWithAllowedEnv(job, allowedEnv)} :
        IF r.err # Nil
        THEN /\ ret' = "failed to create runner: " \o r.err
             /\ pc' = "exit"
             /\ UNCHANGED <<pipeline, archiver, toStart>>
        ELSE /\ pipeline' = r.pipeline
             /\ archiver' = r.archiver
             /\ toStart' = DOMAIN r.pipeline.collectors
             /\ pc' = "run"
             /\ UNCHANGED ret
    /\ UNCHANGED <<cmd, resp, input, variables>>
    /\ UNCHANGED <<allowedEnv, collectFrame>>

\* r.Run(ctx) is called: the Runner runs from its start loop on
CollectRun ==
    /\ pc = "run"
    /\ calls' = Append(calls, Call("runner", "Run", Str(cmd.job), "run", <<>>, Nil))
    /\ pc' = "start"
    /\ UNCHANGED <<cmd, resp, ret, input, variables, pipeline, archiver, toStart, date>>
    /\ UNCHANGED <<allowedEnv, collectFrame>>

\* r.Run(ctx) has returned, and the Action returns: the error of Run wrapped, or nil
CollectReturn ==
    /\ pc = "done"
    /\ ret' = IF runErr # Nil THEN "failed to run job: " \o runErr ELSE Nil
    /\ pc' = "exit"
    /\ UNCHANGED <<calls, cmd, resp, input, variables, pipeline, archiver, toStart, date>>
    /\ UNCHANGED <<allowedEnv, collectFrame>>

\* a second passes while the Action runs
Tick ==
    /\ pc \in {"read", "do", "body", "parse", "build", "expand", "new"}
    /\ clock < MaxClock
    /\ clock' = clock + 1
    /\ UNCHANGED <<pc, cancelled, archiver, calls, pipeline, ret, templateVars,
                   registryVars, tfCollector, date, proc, cmd, resp>>
    /\ UNCHANGED runnerVars

NextCollect ==
    \/ CollectContext
    \/ CollectRead
    \/ CollectDo
    \/ CollectBody
    \/ CollectParse
    \/ CollectBuildVariables
    \/ CollectExpand
    \/ CollectNew
    \/ CollectRun
    \/ CollectReturn
    \/ Tick
    \/ Next

SpecCollect == InitCollect /\ [][NextCollect]_vars

(***************************************************************************)
(* Reading the call log                                                    *)
(***************************************************************************)
Idx == 1..Len(calls)

IsCall(i, target, op) == calls[i].target = target /\ calls[i].op = op

\* the calls made on one collaborator, in call order
CallsOn(target) == SelectSeq(calls, LAMBDA c : c.target = target)

\* the calls of one operation made on one collaborator, in call order
CallsOf(target, op) == SelectSeq(calls, LAMBDA c : c.target = target /\ c.op = op)

\* the collectors whose Start returned nil
StartedOK == {calls[i].id : i \in {k \in Idx : IsCall(k, "collector", "Start")
                                               /\ calls[k].err = Nil}}

\* Close has been attempted on collector c
CloseAttempted(c) == \E i \in Idx : IsCall(i, "collector", "Close") /\ calls[i].id = c

StartFailed == \E i \in Idx : IsCall(i, "collector", "Start") /\ calls[i].err # Nil

\* the collectors of the pipeline have all been started successfully
AllStarted == StartedOK = Collectors(job)

\* the operations an ordered list of calls is made of
Ops(cs) == [i \in 1..Len(cs) |-> cs[i].op]

\* path and bytes of each call of a list
PathsAndData(cs) == [i \in 1..Len(cs) |-> [path |-> cs[i].id, data |-> cs[i].data]]

\* the files the archiver accepted, in the order they were added
Added ==
    LET ok == SelectSeq(calls, LAMBDA c : c.target = "archiver" /\ c.op = "AddFile"
                                          /\ c.err = Nil)
    IN  [i \in 1..Len(ok) |-> [name |-> ok[i].id, content |-> ok[i].data]]

(***************************************************************************)
(* Claims                                                                  *)
(***************************************************************************)

\* C1: when a collector's Start fails, Close is attempted on every collector
\* whose Start had already succeeded, before Run returns its error.
C1_StartFailureClosesStarted ==
    (pc = "done" /\ StartFailed) => \A c \in StartedOK : CloseAttempted(c)

\* C2: when all N steps resolve and the run succeeds, the sink has received
\* exactly N Writes, the i-th carrying step i's encoded result under
\* "<step i>.<ext>", in declaration order.
C2_WritesInDeclarationOrder ==
    (pc = "done" /\ runErr = Nil) =>
        PathsAndData(CallsOf("sink", "Write")) =
            [i \in 1..Len(Steps(job)) |->
                [path |-> Steps(job)[i] \o "." \o FileExtension,
                 data |-> EncodeResult(job.indent, results[Steps(job)[i]]).reader.bytes]]

\* C3: once every collector has been started, Run has attempted Close on every
\* collector by the time it returns, whatever the return path, and every
\* collector Close is given the background context, which is never cancelled.
C3_CleanupClosesEveryCollector ==
    /\ (pc = "done" /\ AllStarted) => \A c \in Collectors(job) : CloseAttempted(c)
    /\ \A i \in Idx : IsCall(i, "collector", "Close") =>
            calls[i].ctx = "background" /\ ~calls[i].cancelled

\* a cancelled run of two or more started collectors has returned an error and
\* closed them all
C3_Witness ==
    /\ pc = "done"
    /\ Cardinality(Collectors(job)) >= 2
    /\ AllStarted
    /\ cancelled
    /\ runErr # Nil
    /\ \A c \in Collectors(job) : CloseAttempted(c)

\* C4: sink finalization (sink.Close and, through the archive adapter, the
\* inner Write and inner Close) is given a fresh un-cancelled context, not the
\* run's context.
C4_SinkFinalizedUnderFreshContext ==
    \A i \in Idx :
        (IsCall(i, "sink", "Close") \/ calls[i].target = "inner") =>
            calls[i].ctx = "background" /\ ~calls[i].cancelled

\* C5: during cleanup the value Run returns does not change, and cleanup ends
\* only when Close has been attempted on every collector, also after a Close
\* that failed.
C5_CloseErrorsDoNotStopCleanup ==
    [][pc = "cleanup" =>
        /\ runErr' = runErr
        /\ (pc' = "done" => \A c \in Collectors(job) : CloseAttempted(c)')]_vars

\* a successful run whose cleanup saw a Close fail and closed another
\* collector after it
C5_Witness ==
    /\ pc = "done"
    /\ runErr = Nil
    /\ Len(logged) >= 1
    /\ \E i, k \in Idx :
        /\ i < k
        /\ IsCall(i, "collector", "Close") /\ calls[i].err # Nil
        /\ IsCall(k, "collector", "Close")

\* C6: the inner sink receives no call before the adapter's Close, and after
\* k >= 0 successful adapter Writes followed by one adapter Close that has
\* returned it has received exactly one Write and then exactly one Close.
C6_ExactlyOneInnerWriteThenClose ==
    job.archive =>
        LET sc == CallsOn("sink")
            ic == CallsOn("inner")
        IN  /\ (\A i \in 1..Len(sc) : sc[i].op # "Close") => ic = <<>>
            /\ (/\ Len(sc) >= 1
                /\ sc[Len(sc)].op = "Close"
                /\ pc \notin {"innerWrite", "innerClose"}
                /\ \A i \in 1..(Len(sc) - 1) : sc[i].op = "Write" /\ sc[i].err = Nil)
               => Ops(ic) = <<"Write", "Close">>

\* the names of the headers of a tar stream, in stream order
HeaderNames(stream) ==
    LET hs == SelectSeq(stream, LAMBDA t : t.t = "hdr")
    IN  [i \in 1..Len(hs) |-> hs[i].name]

\* C7: after Close, the bytes of the archive of N files of distinct names read
\* back, for each compression, as exactly N entries, the one named n_i holding
\* exactly b_i, and the headers stand in the archive in the order of the adds.
C7_TarRoundTrip ==
    (/\ pc = "tar" /\ archiver.closed
     /\ \A i, k \in 1..Len(Added) : i # k => Added[i].name # Added[k].name) =>
        LET r == readTarEntries(archiver.buf, archiver.compression)
            d == Decompress(archiver.compression, archiver.buf)
        IN  /\ r.err = Nil
            /\ Cardinality(DOMAIN r.entries) = Len(Added)
            /\ \A i \in 1..Len(Added) :
                  /\ Added[i].name \in DOMAIN r.entries
                  /\ r.entries[Added[i].name] = Added[i].content
            /\ HeaderNames(d.stream) = [i \in 1..Len(Added) |-> Added[i].name]

\* a closed archive of two files of different names and different, non-empty bytes
C7_Witness ==
    /\ pc = "tar"
    /\ archiver.closed
    /\ Len(Added) >= 2
    /\ Added[1].name # Added[2].name
    /\ Added[1].content # Added[2].content
    /\ Len(Added[1].content) >= 1
    /\ Len(Added[2].content) >= 1

\* C8: the archive is written to the inner sink under the archive base-name
\* with the archiver's extension appended.
C8_ArchiveWrittenUnderNameWithExtension ==
    \A i \in Idx : IsCall(i, "inner", "Write") =>
        calls[i].id = ArchiveName(job) \o Extension(archiver)

\* C9: once the archiver is closed it stays as it is: a later AddFile or Close
\* returns an error and leaves the archive and its entries untouched.
C9_ClosedIsAbsorbing ==
    [][(pc = "tar" /\ archiver.closed) =>
        /\ archiver' = archiver
        /\ (Len(calls') > Len(calls) => calls'[Len(calls')].err # Nil)]_vars

\* a Close that succeeded, then an AddFile and a Close that were refused
C9_Witness ==
    /\ pc = "tar"
    /\ \E i, j, k \in Idx :
        /\ i < j /\ i < k
        /\ IsCall(i, "archiver", "Close") /\ calls[i].err = Nil
        /\ IsCall(j, "archiver", "AddFile") /\ calls[j].err = "archiver is closed"
        /\ IsCall(k, "archiver", "Close") /\ calls[k].err = "archiver already closed"

\* C10: Resolve calls and returns alternate, the i-th call is for the i-th
\* declared step and comes after the previous step's Resolve returned nil; at
\* most one Resolve is in flight.
C10_ResolveSequential ==
    /\ Cardinality(inflight) <= 1
    /\ LET rs == CallsOn("step")
       IN  \A i \in 1..Len(rs) :
             IF i % 2 = 1
             THEN /\ rs[i].op = "Resolve"
                  /\ rs[i].id = Steps(job)[(i + 1) \div 2]
                  /\ (i > 1 => rs[i - 1].err = Nil)
             ELSE /\ rs[i].op = "Resolved"
                  /\ rs[i].id = rs[i - 1].id

\* the second step's Resolve is in flight, after the first returned
C10_Witness ==
    /\ pc = "resolving"
    /\ stepIdx = 2
    /\ inflight = {Steps(job)[2]}
    /\ Len(CallsOn("step")) = 3

\* the error Pipeline.Run returns (wrapped by Runner.Run) when the context is
\* found cancelled before the k-th step
CancelledAtStep(k) ==
    "failed to run pipeline: context cancelled while running pipeline at step '"
        \o Steps(job)[k] \o "': " \o ContextCanceled

\* the step ids Resolve has been called for
Resolved == {calls[i].id : i \in {j \in Idx : IsCall(j, "step", "Resolve")}}

\* C11: Resolve is never called under a cancelled context; when Pipeline.Run is
\* about to run step k and the context is cancelled, its next move makes no call,
\* and leaves Run with the error naming step k and an empty result map; once that
\* error is returned only steps before k have been resolved.
C11_CancelledBeforeStepSkipsResolve ==
    /\ [](\A i \in Idx : IsCall(i, "step", "Resolve") => ~calls[i].cancelled)
    /\ [](\A k \in 1..Len(Steps(job)) :
            runErr = CancelledAtStep(k) =>
                /\ results = EmptyMap
                /\ Resolved \subseteq {Steps(job)[j] : j \in 1..(k - 1)})
    /\ [][(pc = "pipeline" /\ stepIdx <= Len(Steps(job)) /\ cancelled) =>
            /\ calls' = calls
            /\ runErr' = CancelledAtStep(stepIdx)
            /\ results' = EmptyMap
            /\ pc' \in {"cleanup", "done"}]_vars

\* Run has returned the cancellation error naming the second step, after the
\* first step was resolved
C11_Witness ==
    /\ pc = "done"
    /\ Len(Steps(job)) >= 2
    /\ runErr = CancelledAtStep(2)
    /\ Resolved = {Steps(job)[1]}
    /\ results = EmptyMap

\* the call appended to the log by the step being taken
LastCall == calls'[Len(calls')]

\* the argument of the first call of op with this id
FirstAdded(op, id) ==
    LET first == CHOOSE i \in Idx :
                   /\ IsCall(i, "pipeline", op) /\ calls[i].id = id
                   /\ \A j \in 1..(i - 1) : ~(IsCall(j, "pipeline", op) /\ calls[j].id = id)
    IN  calls[first].data

\* C12: AddCollector (AddStep) with an id already present returns an error and
\* leaves the pipeline as it was; step ids are pairwise distinct, and every
\* collector and every step is the instance passed by the first call for its id.
C12_DuplicateIdRejected ==
    /\ [][Len(calls') = Len(calls) + 1 =>
            /\ (LastCall.op = "AddCollector" /\ LastCall.id \in DOMAIN pipeline.collectors)
                    => (LastCall.err # Nil /\ pipeline' = pipeline)
            /\ (LastCall.op = "AddStep"
                 /\ \E i \in 1..Len(pipeline.steps) : pipeline.steps[i].ID = LastCall.id)
                    => (LastCall.err # Nil /\ pipeline' = pipeline)]_vars
    /\ [](\A i, j \in 1..Len(pipeline.steps) :
            pipeline.steps[i].ID = pipeline.steps[j].ID => i = j)
    /\ [](\A id \in DOMAIN pipeline.collectors :
            pipeline.collectors[id] = FirstAdded("AddCollector", id))
    /\ [](\A i \in 1..Len(pipeline.steps) :
            pipeline.steps[i].Step = FirstAdded("AddStep", pipeline.steps[i].ID))

\* a second AddStep for the same id with another instance was refused, and the
\* list still holds the first instance alone
C12_Witness ==
    /\ Len(calls) = 3
    /\ calls[1].op = "AddStep" /\ calls[1].err = Nil
    /\ calls[2].op = "AddStep" /\ calls[2].id = calls[1].id
    /\ calls[2].data # calls[1].data /\ calls[2].err # Nil
    /\ calls[3].op = "AddCollector" /\ calls[3].err = Nil
    /\ Len(pipeline.steps) = 1
    /\ pipeline.steps[1].Step = calls[1].data

\* the job sets output.archive and its sink is stdout, explicitly or by default
StdoutWithArchive(j) == j.output /\ j.archive /\ j.sink \in {Nil, "stdout"}

\* the errors of New that contain "stdout sink cannot be used with archive"
MentionsStdoutArchive(err) == err = "failed to build sink: " \o StdoutArchiveError

\* C13 as stated: for every job with an archive and the stdout sink New fails
\* with the stdout-with-archive error, and nothing is started or resolved.
C13_StdoutArchiveAlwaysNamed ==
    StdoutWithArchive(job) =>
        /\ pc \in {"new", "done"}
        /\ calls = <<>>
        /\ (pc = "done" => MentionsStdoutArchive(ret))

\* C13: for every job with an archive and the stdout sink New fails, and nothing
\* is started or resolved; the error is the stdout-with-archive error when the
\* job's pipeline and encoder can be built.
C13_StdoutArchiveRejectedAtBuild ==
    StdoutWithArchive(job) =>
        /\ pc \in {"new", "done"}
        /\ calls = <<>>
        /\ (pc = "done" =>
              /\ ret # Nil
              /\ (createPipeline(job).err = Nil /\ buildEncoder(job).err = Nil)
                    => MentionsStdoutArchive(ret))

\* New has refused a job with an archive, no output.sink, and a collector and a
\* step that were never started or resolved
C13_Witness ==
    /\ StdoutWithArchive(job)
    /\ job.sink = Nil
    /\ job.nCols = 1 /\ job.nSteps = 1
    /\ pc = "done"
    /\ MentionsStdoutArchive(ret)
    /\ calls = <<>>

\* the names referred to in s from position j on, in order: "$" starts a
\* reference when a name follows it: in braces, as one special character, or
\* as a run of letters, digits and underscores
RECURSIVE References(_, _)
References(s, j) ==
    IF j >= Len(s) THEN <<>>
    ELSE IF s[j] # "$" THEN References(s, j + 1)
    ELSE LET g == getShellName(SubSeq(s, j + 1, Len(s)))
         IN  IF g.name = <<>> THEN References(s, j + g.w + 1)
             ELSE <<Str(g.name)>> \o References(s, j + g.w + 1)

\* the references of s that vs does not resolve, in order
Unresolved(s, vs) == SelectSeq(References(s, 1), LAMBDA n : n \notin DOMAIN vs)

\* C14: Expand returns a nil error exactly when every reference of the string
\* names a key of the map; when it fails the returned string is empty and the
\* error holds, for every unresolved reference, the message naming it.
C14_ExpandSucceedsIffAllResolved ==
    pc = "done" =>
        /\ (ret.errs = <<>>) <=> (\A i \in 1..Len(References(input, 1)) :
                                     References(input, 1)[i] \in DOMAIN variables)
        /\ ret.errs # <<>> =>
             /\ ret.value = <<>>
             /\ ret.errs = [i \in 1..Len(Unresolved(input, variables)) |->
                              NotAllowed(Unresolved(input, variables)[i])]

\* "$A$B" was expanded with a map that has neither name: the error names both
C14_Witness ==
    /\ pc = "done"
    /\ input = <<"$", "A", "$", "B">>
    /\ variables = EmptyMap
    /\ ret = [value |-> <<>>, errs |-> <<NotAllowed("A"), NotAllowed("B")>>]

\* the document ExpandTemplates was called with, and the iteration order it met
Doc0 == calls[1].data
Order0 == calls[1].id

\* ExpandTemplates has returned
Expanded == pc = "done" /\ calls # <<>>

RECURSIVE SumSeq(_)
SumSeq(ns) == IF ns = <<>> THEN 0 ELSE Head(ns) + SumSeq(Tail(ns))

\* the field's strings are template-expandable
Tagged(f) == f.tag # Nil /\ f.tag # "-"

\* the number of references vs does not resolve in the expandable strings of a
\* struct value: tagged strings, values of string maps, elements of tagged
\* string slices, in nested structs as well
RECURSIVE UnresolvedInStruct(_, _)
UnresolvedInField(f, vs) ==
    IF ~f.exported THEN 0
    ELSE IF f.kind = "string" /\ Tagged(f) THEN Len(Unresolved(f.val, vs))
    ELSE IF f.kind = "*string" /\ Tagged(f) /\ ~f.val.nil
    THEN Len(Unresolved(f.val.elem, vs))
    ELSE IF f.kind = "map[string]string" /\ ~f.val.nil
    THEN LET ks == iteration(f.val.m, <<"k1", "k2">>)
         IN  SumSeq([i \in 1..Len(ks) |-> Len(Unresolved(f.val.m[ks[i]], vs))])
    ELSE IF f.kind = "struct" THEN UnresolvedInStruct(f.val, vs)
    ELSE IF f.kind = "*struct" /\ ~f.val.nil THEN UnresolvedInStruct(f.val.elem, vs)
    ELSE IF f.kind = "[]string" /\ Tagged(f) /\ ~f.val.nil
    THEN SumSeq([i \in 1..Len(f.val.elems) |-> Len(Unresolved(f.val.elems[i], vs))])
    ELSE IF f.kind = "[]struct" /\ ~f.val.nil
    THEN SumSeq([i \in 1..Len(f.val.elems) |-> UnresolvedInStruct(f.val.elems[i], vs)])
    ELSE 0

UnresolvedInStruct(v, vs) == SumSeq([i \in 1..Len(v) |-> UnresolvedInField(v[i], vs)])

\* C15: when ExpandTemplates fails, its error holds one message for each
\* unresolved reference of the document, whatever field the reference is in.
C15_ErrorsAccumulateAcrossFields ==
    Expanded => Len(ret.errs) = UnresolvedInStruct(Doc0.elem, variables)

\* a struct value with every expandable string blanked
RECURSIVE BlankStruct(_)
BlankField(f) ==
    IF ~f.exported THEN f.val
    ELSE IF f.kind = "string" /\ Tagged(f) THEN <<>>
    ELSE IF f.kind = "*string" /\ Tagged(f) /\ ~f.val.nil
    THEN [nil |-> FALSE, elem |-> <<>>]
    ELSE IF f.kind = "map[string]string" /\ ~f.val.nil
    THEN [nil |-> FALSE, m |-> [k \in DOMAIN f.val.m |-> <<>>]]
    ELSE IF f.kind = "struct" THEN BlankStruct(f.val)
    ELSE IF f.kind = "*struct" /\ ~f.val.nil
    THEN [nil |-> FALSE, elem |-> BlankStruct(f.val.elem)]
    ELSE IF f.kind = "[]string" /\ Tagged(f) /\ ~f.val.nil
    THEN [nil |-> FALSE, elems |-> [i \in 1..Len(f.val.elems) |-> <<>>]]
    ELSE IF f.kind = "[]struct" /\ ~f.val.nil
    THEN [nil |-> FALSE, elems |-> [i \in 1..Len(f.val.elems) |->
                                     BlankStruct(f.val.elems[i])]]
    ELSE f.val

BlankStruct(v) == [i \in 1..Len(v) |-> [v[i] EXCEPT !.val = BlankField(v[i])]]

\* C16: after ExpandTemplates, successful or not, the document differs from
\* what it was in its expandable strings only: tagged strings, values of string
\* maps and elements of tagged string slices.
C16_OnlyExpandableStringsChange ==
    Expanded => BlankStruct(input.elem) = BlankStruct(Doc0.elem)

\* a successful expansion that changed the document, with its untagged string,
\* its string tagged "-" and its map of ints in it
C16_Witness ==
    /\ Expanded
    /\ ret.errs = <<>>
    /\ input # Doc0
    /\ Doc0.elem[1].val = RefToken /\ input.elem[1].val = <<"t">>
    /\ input.elem[2].val = RefJobName
    /\ input.elem[3].val = RefToken
    /\ ~Doc0.elem[7].val.nil

\* the variable map that resolves every name but this one
AllBut(name) ==
    [k \in {"JOB_NAME", "JOB_DATE_ISO8601", "JOB_DATE_RFC3339", "TOKEN", "SECRET"}
           \ {name} |-> <<>>]

\* C17: the expanded document and the error are the same in every environment
\* that agrees with the actual one on the allow-listed names; and when the
\* document refers to a variable that is set but not allow-listed, expansion
\* fails.
C17_OnlyAllowListedEnvInfluences ==
    Expanded =>
        /\ \A e2 \in Envs :
             (\A i \in 1..Len(allowedEnv) : e2[allowedEnv[i]] = env[allowedEnv[i]]) =>
                LET b == BuildVariables(job, allowedEnv, e2)
                    r == ExpandTemplates(Doc0, b.vars, Order0)
                IN  b.errs = <<>> /\ r.val = input /\ r.errs = ret.errs
        /\ \A name \in DOMAIN env :
             (/\ env[name] # Unset
              /\ \A i \in 1..Len(allowedEnv) : allowedEnv[i] # name
              /\ UnresolvedInStruct(Doc0.elem, AllBut(name)) > 0)
                => ret.errs # <<>>

\* SECRET is set and not allow-listed, the document's first field refers to it,
\* and expansion failed naming it
C17_Witness ==
    /\ Expanded
    /\ env["SECRET"] = [set |-> TRUE, val |-> <<"x">>]
    /\ allowedEnv = <<"TOKEN">>
    /\ Doc0.elem[1].val = RefSecret
    /\ ret.errs = <<NotAllowed("SECRET")>>
    /\ input = Doc0

\* the place of a kind in the order of slices.Sort
Pos(k) == CHOOSE i \in 1..Len(KindOrder) : KindOrder[i] = k

\* the list holds exactly these kinds, in ascending order
SortedListOf(list, kinds) ==
    /\ {list[i] : i \in 1..Len(list)} = kinds
    /\ \A i, j \in 1..Len(list) : i < j => Pos(list[i]) < Pos(list[j])

\* C18: while a Create* still holds the read lock, what it has read is whether
\* its kind is registered and the sorted list of the kinds registered in its
\* category; when the kind was not registered it returns the
\* UnsupportedTypeError with the category, the kind and that list, and no
\* factory has been invoked.
C18_UnregisteredKindIsUnsupported ==
    \A t \in Threads :
        LET th == threads[t]
            category == IF th.op = "CreateCollector" THEN "collector" ELSE "step"
        IN  /\ th.pc = "RUnlock" =>
                 /\ th.ok = (th.kind \in DOMAIN registry[MapOf(th.op)])
                 /\ SortedListOf(th.available, DOMAIN registry[MapOf(th.op)])
            /\ (th.pc = "Return" /\ th.op \in {"CreateCollector", "CreateStep"} /\ ~th.ok) =>
                 /\ th.result = UnsupportedTypeError(category, th.kind, th.available)
                 /\ \A i \in 1..Len(th.available) : th.available[i] # th.kind
                 /\ ~th.invoked
            /\ th.invoked => th.ok

\* CreateCollector("exec") returns the error listing the two registered kinds
C18_Witness ==
    \E t \in Threads :
        /\ threads[t].pc = "Return"
        /\ threads[t].op = "CreateCollector"
        /\ threads[t].result =
             UnsupportedTypeError("collector", "exec", <<"http", "terraform">>)
        /\ ~threads[t].invoked

\* C19: a goroutine writing one of the Registry's maps holds the write lock, a
\* goroutine reading one holds the read lock or the write lock, and a read
\* never overlaps a write of the same map.
C19_MapAccessesHoldTheLock ==
    \A t \in Threads :
        /\ threads[t].mode = "w" => mu.writer = t
        /\ threads[t].mode = "r" => (t \in mu.readers \/ mu.writer = t)
        /\ ~Races(t)

\* C20: once a Start has returned nil, every later Start returns nil and
\* neither CreateProvider nor Configure is called again.
C20_StartIdempotent ==
    \A i \in Idx :
        (IsCall(i, "collector", "Start") /\ calls[i].err = Nil) =>
            \A j \in (i + 1)..Len(calls) :
                /\ IsCall(j, "collector", "Start") => calls[j].err = Nil
                /\ ~IsCall(j, "client", "CreateProvider")
                /\ ~IsCall(j, "provider", "Configure")

\* two Starts returned nil and CreateProvider was called once
C20_Witness ==
    /\ Len(CallsOf("collector", "Start")) = 2
    /\ \A i \in Idx : IsCall(i, "collector", "Start") => calls[i].err = Nil
    /\ Len(CallsOf("client", "CreateProvider")) = 1
    /\ tfCollector.provider # Nil

\* the collectors whose Start had returned nil before the i-th call of the log
StartedBefore(i) ==
    {calls[k].id : k \in {n \in 1..(i - 1) : IsCall(n, "collector", "Start")
                                             /\ calls[n].err = Nil}}

\* C26: every call of a step's Resolve, and every return from it, comes after
\* Start has succeeded on every collector of the pipeline and before Close is
\* called on any collector.
C26_ResolveBetweenStartAndClose ==
    \A i \in Idx :
        calls[i].target = "step" =>
            /\ StartedBefore(i) = Collectors(job)
            /\ \A k \in 1..(i - 1) : ~IsCall(k, "collector", "Close")

\* a finished run of two collectors and two steps: both steps were resolved and
\* both collectors closed
C26_Witness ==
    /\ pc = "done"
    /\ Cardinality(Collectors(job)) >= 2
    /\ Len(CallsOf("step", "Resolve")) >= 2
    /\ \A c \in Collectors(job) : CloseAttempted(c)

\* a step's Resolve has returned an error
ResolveFailed == \E i \in Idx : IsCall(i, "step", "Resolved") /\ calls[i].err # Nil

\* C27: once a step's Resolve has failed, no later step is resolved, the
\* pipeline's results are empty and the sink receives no call: Run returns the
\* error naming the step.
C27_ResolveFailureWritesNothing ==
    ResolveFailed =>
        /\ \A i \in Idx : (IsCall(i, "step", "Resolved") /\ calls[i].err # Nil) =>
              /\ \A k \in (i + 1)..Len(calls) : calls[k].target # "step"
              /\ runErr = "failed to run pipeline: failed to resolve step '"
                          \o calls[i].id \o "': " \o calls[i].err
        /\ results = EmptyMap
        /\ toWrite = {}
        /\ CallsOn("sink") = <<>>
        /\ CallsOn("inner") = <<>>

\* Run has returned after the second step failed to resolve, the first having
\* been resolved
C27_Witness ==
    /\ pc = "done"
    /\ ResolveFailed
    /\ Len(CallsOf("step", "Resolve")) = 2
    /\ Len(Steps(job)) >= 2
    /\ CallsOf("step", "Resolved")[1].err = Nil

\* C29: when Run has returned and the inner sink's Write had failed, the inner
\* sink's Close has been called.
C29_InnerClosedAfterFailedInnerWrite ==
    (pc = "done" /\ \E i \in Idx : IsCall(i, "inner", "Write") /\ calls[i].err # Nil)
        => \E k \in Idx : IsCall(k, "inner", "Close")

\* C30: when Run has returned and the sink had received a Write, the sink's
\* Close has been called.
C30_SinkClosedOnceWritten ==
    (pc = "done" /\ \E i \in Idx : IsCall(i, "sink", "Write"))
        => \E k \in Idx : IsCall(k, "sink", "Close")

\* how Go prints the timeouts of TimeoutStrings, and the default one
Printed(timeout) ==
    IF timeout.nil THEN "30s"
    ELSE IF timeout.elem = <<"1", "0", "0", "m", "s">> THEN "100ms"
    ELSE IF timeout.elem = <<"1", "5", "0", "0", "m", "s">> THEN "1.5s"
    ELSE IF timeout.elem = <<"6", "0", "s">> THEN "1m0s"
    ELSE IF timeout.elem = <<"1", "m", "3", "0", "s">> THEN "1m30s"
    ELSE IF timeout.elem = <<"1", ".", "5", "h">> THEN "1h30m0s"
    ELSE IF timeout.elem = <<"1", "0", "0", "0", "u", "s">> THEN "1ms"
    ELSE IF timeout.elem = <<"2", "5", "0", "n", "s">> THEN "250ns"
    ELSE IF timeout.elem = <<"0", ".", "0", "0", "0", "0", "0", "0", "0", "0", "0", "0", "5", "0", "0", "0", "m">>
    THEN "2ns"
    ELSE "0s"

\* the command was still running when the timeout elapsed
TimedOutRunning == proc.state = "killed" /\ proc.expired

\* C21: when the command was still running when the step's timeout T elapsed,
\* Resolve returns the error "command timed out after <T>: <stderr>", with T
\* printed as Go prints a duration, and not the "command failed" error.
C21_TimeoutReportedAsTimedOut ==
    (pc = "done" /\ TimedOutRunning) =>
        \E stderr \in {"", "boom"} :
            ret.err = "command timed out after " \o Printed(input.Timeout) \o ": " \o stderr

\* Resolve has returned the timeout error for a command that ran past a
\* timeout of 100ms, with what the command had written to stderr
C21_Witness ==
    /\ pc = "done"
    /\ TimedOutRunning
    /\ input.Timeout = [nil |-> FALSE, elem |-> <<"1", "0", "0", "m", "s">>]
    /\ ret.err = "command timed out after 100ms: boom"

\* the fixed set of parent variables every child may see
SafeEnvVars == {"PATH", "HOME"}

\* C22: the child sees a variable of the parent environment only if it belongs
\* to the safe set; the step configuration has no list of allowed names, so no
\* other parent variable may reach the child.
C22_ChildEnvContained ==
    \A n \in DOMAIN proc.env :
        proc.env[n].from = "os.Environ" => n \in SafeEnvVars

\* the path lies in the base directory: its elements begin with those of the base
InBase(segs) == HasPrefix(segs, Segments(rootDir))

\* the file path of the step names a file outside the base directory
ResolvesOutside ==
    /\ ~input.Filepath.nil
    /\ \E real \in {OsReadFile(Join(rootDir, input.Filepath.elem)).file} :
        real # <<>> /\ ~InBase(Segments(real))

\* C23: a static step whose file path resolves outside its base directory fails
\* on Resolve, and no file outside the base directory is ever read.
C23_NoReadOutsideBase ==
    /\ \A i \in Idx : IsCall(i, "fs", "ReadFile") => InBase(calls[i].data)
    /\ (pc = "done" /\ ResolvesOutside) => ret.err # Nil

\* the number of variants of the spec that are set
Variants(spec) == Cardinality({f \in DOMAIN spec \ {"ID"} : ~spec[f].nil})

\* C24: ResolveStepSpec and ResolveCollectorSpec return an error whenever the
\* number of variants set in the spec is not exactly one: when none is set and
\* when two or more are set.
C24_ErrorUnlessExactlyOneVariant ==
    (pc = "done" /\ Variants(input.spec) # 1) => ret.err # Nil

\* the job file is remote and the command was not given --trust-remote
Untrusted ==
    /\ cmd.job \in {<<"http", ":", "/", "/", "host", "/", "job.yaml">>,
                    <<"https", ":", "/", "/", "host", "/", "job.yaml">>,
                    <<"https", ":", "/", "/", "host", "/", "%zz">>}
    /\ ~cmd.trustRemote

\* the first line typed on stdin is "y", white space aside
Answered(stdin) ==
    \E i \in 1..Len(stdin) :
        /\ stdin[i] = "\n"
        /\ \A j \in 1..(i - 1) : stdin[j] # "\n"
        /\ SelectSeq(SubSeq(stdin, 1, i), LAMBDA t : t \notin {" ", "\n", "\r", "\t"})
             = <<"y">>
AnsweredY == Answered(cmd.stdin)

\* the Action has gone past the check of a remote job file
PastTrustCheck == pc \notin {"collect", "read", "do", "body", "exit"} \/ calls # <<>>

\* C25: an untrusted remote job file is parsed and executed only if the session
\* is interactive, which it never is with CI set to a value, and the user answered
\* "y"; in every other case the command fails with nothing parsed, built or run.
\* The check of the Action lets such a file pass only under a context that
\* holds the value true and with "y" as the first line typed, whatever the
\* context and the line; isInteractiveEnvironment() is false with CI set to a
\* value; and the command as main runs it never goes past the check.
C25_UntrustedRemoteNeedsConfirmation ==
    /\ \A v \in {NoInteractive, withInteractive(FALSE), withInteractive(TRUE)},
          stdin \in Stdins :
            trustCheck(TRUE, FALSE, v, stdin) = Nil => (isInteractive(v) /\ Answered(stdin))
    /\ \A e \in CollectEnvs, tty \in BOOLEAN :
            Getenv(e, "CI") # <<>> => ~isInteractiveEnvironment(e, tty)
    /\ (Untrusted /\ PastTrustCheck) => (isInteractive(cmd.ctxValue) /\ AnsweredY)
    /\ (Untrusted /\ pc = "exit" /\ ~(isInteractive(cmd.ctxValue) /\ AnsweredY)) =>
           (ret # Nil /\ calls = <<>> /\ variables = EmptyMap /\ pipeline = NewPipeline
            /\ results = EmptyMap)

\* a remote job file was fetched without --trust-remote, from a terminal with
\* CI not set and "y" typed: the command failed with nothing parsed, built
\* or run
C25_Witness ==
    /\ pc = "exit"
    /\ Untrusted
    /\ cmd.job \in RemoteNames
    /\ cmd.tty /\ Getenv(env, "CI") = <<>>
    /\ cmd.stdin = <<"y", "\n">>
    /\ ret = "remote job file requires --trust-remote flag in non-interactive mode"
    /\ calls = <<>>
    /\ variables = EmptyMap /\ pipeline = NewPipeline /\ results = EmptyMap

\* C28: one time snapshot is taken per job: JOB_DATE_ISO8601, JOB_DATE_RFC3339
\* and the pipeline's date denote the same instant.
C28_SingleSnapshot ==
    (\E i \in Idx : IsCall(i, "runner", "New")) =>
        /\ variables["JOB_DATE_ISO8601"] = ISO8601Basic(date)
        /\ variables["JOB_DATE_RFC3339"] = RFC3339(date)


====
